---- MODULE Spec2Model ----
(***************************************************************************)
(* Request identity subsystem of the my-countries backend:                 *)
(*   - auth.Authenticator: the lazily initialised JWKS cache               *)
(*     (ensureCache, sync.Once) and VerifyIDToken (backend/internal/auth)  *)
(*   - server.authMiddleware and the route table (backend/internal/server) *)
(* Requests are goroutines; each one is either an HTTP request dispatched  *)
(* by the router or a direct caller of Authenticator.VerifyIDToken.        *)
(***************************************************************************)
EXTENDS Integers, Sequences, FiniteSets, TLC

(* ------------------------------------------------------------------ *)
(* Bounds                                                               *)
(* ------------------------------------------------------------------ *)

\* number of goroutines (HTTP requests / direct callers) in one behaviour
NumReq == 2

Reqs == 1..NumReq

\* number of goroutines in the specifications that enumerate every route,
\* header and token (SpecHTTP, SpecVerify)
NumSeq == 1

SeqReqs == 1..NumSeq

NoReq == 0

(* ------------------------------------------------------------------ *)
(* Strings are sequences of one-character strings, so that HasPrefix,   *)
(* TrimSpace and the split of a compact token work on characters.       *)
(* ------------------------------------------------------------------ *)

EmptyStr == << >>

BearerPrefix == <<"B", "e", "a", "r", "e", "r", " ">>

HasPrefix(s, p) == Len(s) >= Len(p) /\ SubSeq(s, 1, Len(p)) = p

IsSpace(c) == c \in {" ", "\t"}

RECURSIVE TrimLeft(_)
TrimLeft(s) == IF s # << >> /\ IsSpace(Head(s)) THEN TrimLeft(Tail(s)) ELSE s

RECURSIVE TrimRight(_)
TrimRight(s) ==
    IF s # << >> /\ IsSpace(s[Len(s)]) THEN TrimRight(SubSeq(s, 1, Len(s) - 1)) ELSE s

TrimSpace(s) == TrimRight(TrimLeft(s))

\* the dot-separated segments of a compact token
RECURSIVE SplitDots(_, _)
SplitDots(s, cur) ==
    IF s = << >> THEN <<cur>>
    ELSE IF Head(s) = "." THEN <<cur>> \o SplitDots(Tail(s), << >>)
    ELSE SplitDots(Tail(s), Append(cur, Head(s)))

Segments(tok) == SplitDots(tok, << >>)

(* ------------------------------------------------------------------ *)
(* Authenticator construction                                           *)
(* ------------------------------------------------------------------ *)

firebaseIDTokenJWKSURL ==
    "https://www.googleapis.com/service_accounts/v1/jwk/securetoken@system.gserviceaccount.com"

IssuerPrefix == "https://securetoken.google.com/"

\* acceptableSkew, in seconds
acceptableSkew == 60

ProjectIDs == {"p"}

FirebaseProjectIDs == {"", "f"}

\* a URL a per-project key endpoint would have (used by a faulty variant only)
PerProjectURL(effective) == "https://keys.example/" \o effective

NewAuthenticatorPerProject(projectID, firebaseProjectID) ==
    LET effective == IF firebaseProjectID # "" THEN firebaseProjectID ELSE projectID
    IN  [ projectID |-> projectID,
          audience  |-> effective,
          jwksURL   |-> PerProjectURL(effective),
          issuer    |-> IssuerPrefix \o effective,
          whitelist |-> {PerProjectURL(effective)} ]

\* NewAuthenticator(projectID, firebaseProjectID), projectID # ""
NewAuthenticator(projectID, firebaseProjectID) ==
    LET effective == IF firebaseProjectID # "" THEN firebaseProjectID ELSE projectID
    IN  [ projectID |-> projectID,
          audience  |-> effective,
          jwksURL   |-> firebaseIDTokenJWKSURL,
          issuer    |-> IssuerPrefix \o effective,
          whitelist |-> {firebaseIDTokenJWKSURL} ]

(* ------------------------------------------------------------------ *)
(* Key sets and tokens                                                  *)
(* ------------------------------------------------------------------ *)

\* a key set is a set of <<key id, public key>> pairs; NoKeys is the nil set
NoKeys == [present |-> FALSE, keys |-> {}]

KS1 == [present |-> TRUE, keys |-> {<<"k1", "A">>}]

KS2 == [present |-> TRUE, keys |-> {<<"k1", "A">>, <<"k2", "B">>}]

\* what the key endpoint may publish
KeySets == {KS1, KS2}

\* JOSE header segment -> key id ("" = the header has no kid)
HeaderChars == {"0", "1", "2", "3"}

KidOf(c) == CASE c = "1" -> "k1" [] c = "2" -> "k2" [] c = "3" -> "k3" [] OTHER -> ""

\* payload segment -> claims; exp and nbf are seconds relative to the verifier's clock
PayloadChars ==
    {"g", "f", "x", "n", "h", "a", "b", "c", "d", "j", "k", "l", "m", "o", "q", "r", "s", "t"}

\* the registered claims of a payload; aud is the list of audiences of the token
Payload(iss, aud, exp, nbf, sub) == [iss |-> iss, aud |-> aud, exp |-> exp, nbf |-> nbf, sub |-> sub]

ClaimsOf(c) ==
    CASE c = "g" -> Payload(IssuerPrefix \o "p", {"p"}, 3000, -30, "u1")
      [] c = "f" -> Payload(IssuerPrefix \o "f", {"f"}, 3000, -30, "u2")
      [] c = "x" -> Payload(IssuerPrefix \o "p", {"p"}, -90, -4000, "u1")
      [] c = "h" -> Payload(IssuerPrefix \o "p", {"p"}, 3000, -30, "u2")
      \* expiry 30, 59, 60 and 61 seconds before the verifier's clock
      [] c = "a" -> Payload(IssuerPrefix \o "p", {"p"}, -30, -4000, "u1")
      [] c = "b" -> Payload(IssuerPrefix \o "p", {"p"}, -59, -4000, "u1")
      [] c = "c" -> Payload(IssuerPrefix \o "p", {"p"}, -60, -4000, "u1")
      [] c = "d" -> Payload(IssuerPrefix \o "p", {"p"}, -61, -4000, "u1")
      \* not-before 30, 60 and 61 seconds after the verifier's clock
      [] c = "j" -> Payload(IssuerPrefix \o "p", {"p"}, 3000, 30, "u1")
      [] c = "k" -> Payload(IssuerPrefix \o "p", {"p"}, 3000, 60, "u1")
      [] c = "l" -> Payload(IssuerPrefix \o "p", {"p"}, 3000, 61, "u1")
      \* issuers that are not the expected one
      [] c = "m" -> Payload(IssuerPrefix \o "pp", {"p"}, 3000, -30, "u1")
      [] c = "o" -> Payload(IssuerPrefix, {"p"}, 3000, -30, "u1")
      [] c = "q" -> Payload("http://securetoken.google.com/p", {"p"}, 3000, -30, "u1")
      \* audiences: another project, the project among others, none
      [] c = "r" -> Payload(IssuerPrefix \o "p", {"pp"}, 3000, -30, "u1")
      [] c = "s" -> Payload(IssuerPrefix \o "p", {"p", "other"}, 3000, -30, "u1")
      [] c = "t" -> Payload(IssuerPrefix \o "p", {}, 3000, -30, "u1")
      [] OTHER   -> Payload(IssuerPrefix \o "p", {"p"}, 3000, 90, "u1")

\* signature segment -> the private key that signed the token
SigChars == {"A", "B", "Z"}

Tok(h, p, s) == <<h, ".", p, ".", s>>

TokGood == Tok("1", "g", "A")

TokGoodF == Tok("1", "f", "A")

\* kid k2, signed with the key published under k1
TokWrongKid == Tok("2", "g", "A")

\* kid that no key set holds, signed with a key that no key set holds
TokForeign == Tok("3", "g", "Z")

\* kid k1, signed with a key that is not in any key set
TokForged == Tok("1", "g", "Z")

TokNoKid == Tok("0", "g", "A")

TokExpired == Tok("1", "x", "A")

\* no dots at all
TokMalformed == <<"a", "b">>

\* a second user of project p
TokGoodU2 == Tok("1", "h", "A")

\* tokens signed with the key of their key id that differ in one registered
\* claim each: expiry, not-before, issuer, audience
TemporalTokens == {Tok("1", c, "A") : c \in {"a", "b", "c", "d", "x", "j", "k", "l", "n"}}

IssuerAudienceTokens == {Tok("1", c, "A") : c \in {"g", "f", "m", "o", "q", "r", "s", "t"}}

Tokens == {TokGood, TokGoodF, TokWrongKid, TokForeign, TokForged, TokNoKid, TokExpired, TokMalformed}

Signer(tok) == Segments(tok)[3][1]

TokenKid(tok) == KidOf(Segments(tok)[1][1])

\* the structural envelope: exactly three segments, each decodable
WellFormed(tok) ==
    LET segs == Segments(tok)
    IN  /\ Len(segs) = 3
        /\ Len(segs[1]) = 1 /\ segs[1][1] \in HeaderChars
        /\ Len(segs[2]) = 1 /\ segs[2][1] \in PayloadChars
        /\ Len(segs[3]) = 1 /\ segs[3][1] \in SigChars

(* ------------------------------------------------------------------ *)
(* jwt.Parse(idToken, WithKeySet(keySet), WithValidate(true),           *)
(*           WithIssuer, WithAudience, WithAcceptableSkew)              *)
(* ------------------------------------------------------------------ *)

\* faulty variant: every key of the set is tried, whatever its key id
SelectKeysTryAll(kid, keySet) == {p[2] : p \in keySet.keys}

\* WithKeySet without further options: the token must name a key id and only
\* the key stored under that id is used
SelectKeys(kid, keySet) ==
    IF kid = "" THEN {} ELSE {p[2] : p \in {q \in keySet.keys : q[1] = kid}}

\* faulty variant: the acceptable skew is not applied
TemporalOKNoSkew(cl) == 0 < cl.exp /\ cl.nbf <= 0

\* exp / nbf with the acceptable skew; the verifier's clock is 0
TemporalOK(cl) == 0 < cl.exp + acceptableSkew /\ cl.nbf - acceptableSkew <= 0

NoClaims == [sub |-> ""]

ErrNone == ""

\* what VerifyIDToken returns: the claims, or an error (the wrapping message
\* of VerifyIDToken and the wrapped cause)
Result(claims, err, cause) == [claims |-> claims, err |-> err, cause |-> cause]

Failed(err, cause) == Result(NoClaims, err, cause)

ParseToken(tok, keySet, auth) ==
    IF ~WellFormed(tok) THEN Failed("verify token", "malformed")
    ELSE LET cl == ClaimsOf(Segments(tok)[2][1])
             candidates == SelectKeys(TokenKid(tok), keySet)
         IN  IF candidates = {} THEN Failed("verify token", "no key")
             ELSE IF Signer(tok) \notin candidates THEN Failed("verify token", "signature")
             ELSE IF ~TemporalOK(cl) THEN Failed("verify token", "exp/nbf")
             ELSE IF cl.iss # auth.issuer THEN Failed("verify token", "iss")
             ELSE IF auth.audience \notin cl.aud THEN Failed("verify token", "aud")
             ELSE Result([sub |-> cl.sub], ErrNone, ErrNone)

(* ------------------------------------------------------------------ *)
(* Routes (Server.RegisterRoutes) and the Authorization header          *)
(* ------------------------------------------------------------------ *)

PublicRoutes == {"GET /countries", "GET /share/visits/:shareToken"}

ProtectedRoutes ==
    {"POST /login", "GET /visits", "PUT /visits", "DELETE /visits/:id",
     "GET /friends", "POST /friends", "DELETE /friends/:shareToken"}

\* a request no route matches: served by NoRoute (staticHandler)
UnmatchedRoutes == {"GET /index.html"}

Routes == PublicRoutes \cup ProtectedRoutes \cup UnmatchedRoutes

\* a caller of Authenticator.VerifyIDToken other than the middleware
Direct == "(direct call)"

\* faulty variant: one route registered on the router instead of the group
UsesAuthMiddlewareButOne(route) ==
    route \in ProtectedRoutes \ {"DELETE /friends/:shareToken"}

\* the routes registered on the group that uses authMiddleware
UsesAuthMiddleware(route) == route \in ProtectedRoutes

\* faulty variant: the empty-token check is missing
HeaderRejectionNoEmptyCheck(authz) ==
    IF authz = EmptyStr THEN "missing Authorization header"
    ELSE IF ~HasPrefix(authz, BearerPrefix) THEN "invalid Authorization format"
    ELSE ErrNone

\* authMiddleware's checks before VerifyIDToken: the 401 error, or ErrNone
HeaderRejection(authz) ==
    IF authz = EmptyStr THEN "missing Authorization header"
    ELSE IF ~HasPrefix(authz, BearerPrefix) THEN "invalid Authorization format"
    ELSE IF TrimSpace(SubSeq(authz, Len(BearerPrefix) + 1, Len(authz))) = EmptyStr
         THEN "missing token"
    ELSE ErrNone

BearerToken(authz) == TrimSpace(SubSeq(authz, Len(BearerPrefix) + 1, Len(authz)))

\* UserFromClaims: the user's ID and UserID are both the token's subject
UserFromClaims(claims) == [ID |-> claims.sub, UserID |-> claims.sub]

NoUser == [ID |-> "", UserID |-> ""]

\* the Authorization header values a client may send
Headers ==
    { EmptyStr,
      <<"B", "a", "s", "i", "c", " ">> \o TokGood,
      <<"b", "e", "a", "r", "e", "r", " ">> \o TokGood,
      <<"B", "e", "a", "r", "e", "r">> \o TokGood,
      BearerPrefix,
      BearerPrefix \o <<" ", "\t">>,
      BearerPrefix \o TokGood,
      BearerPrefix \o <<" ">> \o TokForged \o <<" ">> }

(* ------------------------------------------------------------------ *)
(* The Traceparent header (logging.ParseTraceparent)                    *)
(* ------------------------------------------------------------------ *)

\* strings.Split(s, sep) for a one-character separator
RECURSIVE SplitOn(_, _, _)
SplitOn(s, sep, cur) ==
    IF s = << >> THEN <<cur>>
    ELSE IF Head(s) = sep THEN <<cur>> \o SplitOn(Tail(s), sep, << >>)
    ELSE SplitOn(Tail(s), sep, Append(cur, Head(s)))

HexChars ==
    {"0", "1", "2", "3", "4", "5", "6", "7", "8", "9",
     "a", "b", "c", "d", "e", "f", "A", "B", "C", "D", "E", "F"}

isHex(s) == \A i \in 1..Len(s) : s[i] \in HexChars

\* a *ctxkeys.TraceContext; present = FALSE is nil
TraceContext(traceID, spanID, sampled) ==
    [present |-> TRUE, TraceID |-> traceID, SpanID |-> spanID, Sampled |-> sampled]

NoTrace == [present |-> FALSE, TraceID |-> EmptyStr, SpanID |-> EmptyStr, Sampled |-> FALSE]

\* the lower-case form of a character
ToLower(c) ==
    CASE c = "A" -> "a" [] c = "B" -> "b" [] c = "C" -> "c"
      [] c = "D" -> "d" [] c = "E" -> "e" [] c = "F" -> "f" [] OTHER -> c

LowerStr(s) == [i \in 1..Len(s) |-> ToLower(s[i])]

\* faulty variant: the identifiers are normalised to lower case
ParseTraceparentLowerCase(header) ==
    IF header = EmptyStr THEN NoTrace
    ELSE LET parts == SplitOn(header, "-", << >>)
         IN  IF Len(parts) # 4 THEN NoTrace
             ELSE IF Len(parts[1]) # 2 \/ Len(parts[2]) # 32 \/ Len(parts[3]) # 16 THEN NoTrace
             ELSE IF ~isHex(parts[2]) \/ ~isHex(parts[3]) \/ ~isHex(parts[1]) THEN NoTrace
             ELSE TraceContext(LowerStr(parts[2]), LowerStr(parts[3]), FALSE)

\* ParseTraceparent: the flags field (parts[4]) is neither checked nor read;
\* Sampled keeps its zero value
ParseTraceparent(header) ==
    IF header = EmptyStr THEN NoTrace
    ELSE LET parts == SplitOn(header, "-", << >>)
         IN  IF Len(parts) # 4 THEN NoTrace
             ELSE IF Len(parts[1]) # 2 \/ Len(parts[2]) # 32 \/ Len(parts[3]) # 16 THEN NoTrace
             ELSE IF ~isHex(parts[2]) \/ ~isHex(parts[3]) \/ ~isHex(parts[1]) THEN NoTrace
             ELSE TraceContext(parts[2], parts[3], FALSE)

Dash == <<"-">>

Version00 == <<"0", "0">>

TraceIdA == <<"4", "b", "f", "9", "2", "f", "3", "5", "7", "7", "b", "3", "4", "d", "a", "6", "a", "3", "c", "e", "9", "2", "9", "d", "0", "e", "0", "e", "4", "7", "3", "6">>

SpanIdA == <<"0", "0", "f", "0", "6", "7", "a", "a", "0", "b", "a", "9", "0", "2", "b", "7">>

TraceIdB == <<"0", "a", "f", "7", "6", "5", "1", "9", "1", "6", "c", "d", "4", "3", "d", "d", "8", "4", "4", "8", "e", "b", "2", "1", "1", "c", "8", "0", "3", "1", "9", "c">>

SpanIdB == <<"b", "7", "a", "d", "6", "b", "7", "1", "6", "9", "2", "0", "3", "3", "3", "1">>

\* identifiers written with upper-case hex digits
TraceIdC == <<"4", "B", "F", "9", "2", "F", "3", "5", "7", "7", "B", "3", "4", "D", "A", "6", "A", "3", "C", "E", "9", "2", "9", "D", "0", "E", "0", "E", "4", "7", "3", "6">>

SpanIdC == <<"0", "0", "F", "0", "6", "7", "A", "A", "0", "B", "A", "9", "0", "2", "B", "7">>

FlagsSampled == <<"0", "1">>

FlagsUnsampled == <<"0", "0">>

Traceparent(version, traceID, spanID, flags) ==
    version \o Dash \o traceID \o Dash \o spanID \o Dash \o flags

\* 00-4bf92f3577b34da6a3ce929d0e0e4736-00f067aa0ba902b7-01
TpSampled == Traceparent(Version00, TraceIdA, SpanIdA, FlagsSampled)

TpUnsampled == Traceparent(Version00, TraceIdA, SpanIdA, FlagsUnsampled)

\* 00-0af7651916cd43dd8448eb211c80319c-b7ad6b7169203331-01
TpOther == Traceparent(Version00, TraceIdB, SpanIdB, FlagsSampled)

\* headers of the structured shape: four fields of 2, 32, 16 and 2 hex characters
TpUpperCase == Traceparent(Version00, TraceIdC, SpanIdC, FlagsSampled)

WellFormedTraceHeaders == {TpSampled, TpUnsampled, TpOther, TpUpperCase}

\* headers that deviate from the shape in the first three fields or in the
\* number of fields
TpThreeFields == Version00 \o Dash \o TraceIdA \o Dash \o SpanIdA

TpFiveFields == TpSampled \o Dash \o FlagsSampled

TpShortTrace == Traceparent(Version00, Tail(TraceIdA), SpanIdA, FlagsSampled)

TpLongSpan == Traceparent(Version00, TraceIdA, SpanIdA \o <<"0">>, FlagsSampled)

TpShortVersion == Traceparent(<<"0">>, TraceIdA, SpanIdA, FlagsSampled)

TpNonHexTrace == Traceparent(Version00, <<"g">> \o Tail(TraceIdA), SpanIdA, FlagsSampled)

TpNonHexSpan == Traceparent(Version00, TraceIdA, Tail(SpanIdA) \o <<"x">>, FlagsSampled)

TpNonHexVersion == Traceparent(<<"z", "z">>, TraceIdA, SpanIdA, FlagsSampled)

\* headers that deviate from the shape in the flags field only
TpNonHexFlags == Traceparent(Version00, TraceIdA, SpanIdA, <<"z", "z">>)

TpShortFlags == Traceparent(Version00, TraceIdA, SpanIdA, <<"1">>)

TpLongFlags == Traceparent(Version00, TraceIdA, SpanIdA, <<"0", "1", "0", "0">>)

TpEmptyFlags == Traceparent(Version00, TraceIdA, SpanIdA, EmptyStr)

MalformedTraceHeaders ==
    {TpThreeFields, TpFiveFields, TpShortTrace, TpLongSpan, TpShortVersion,
     TpNonHexTrace, TpNonHexSpan, TpNonHexVersion,
     TpNonHexFlags, TpShortFlags, TpLongFlags, TpEmptyFlags}

\* the Traceparent header values a client may send
TraceHeaders == {EmptyStr} \cup WellFormedTraceHeaders \cup MalformedTraceHeaders

\* logging.ParseTraceparent(c.GetHeader("Traceparent")) for each header value a
\* client may send
ParsedTraceparent == [header \in TraceHeaders |-> ParseTraceparent(header)]

\* the structured shape version-traceid-spanid-flags, each field fixed-width hex
StructuredShape(header) ==
    LET parts == SplitOn(header, "-", << >>)
    IN  /\ Len(parts) = 4
        /\ Len(parts[1]) = 2 /\ Len(parts[2]) = 32 /\ Len(parts[3]) = 16 /\ Len(parts[4]) = 2
        /\ \A i \in 1..4 : isHex(parts[i])

(* ------------------------------------------------------------------ *)
(* logging.Logger. Loggers and label maps are heap objects: a *Logger   *)
(* and a map[string]string are references, so that a derivation that    *)
(* wrote into the object it was derived from would show.                *)
(* A heap h is [loggers |-> ref -> Logger, maps |-> ref -> map]; a map  *)
(* is a set of <<key, value>> pairs with at most one pair per key.      *)
(* ------------------------------------------------------------------ *)

\* the nil *Logger and the nil map
NilLogger == <<0, 0>>

NilMap == <<0, 0>>

\* the label name logging.CurrentUserID and the other parameter names
CurrentUserID == "current_user_id"

UserID == "user_id"

ErrorParam == "error"

\* Go values passed as key-values (interface{}): strings, ints and errors
StrVal(s) == [kind |-> "string", s |-> s, n |-> 0]

IntVal(n) == [kind |-> "int", s |-> "", n |-> n]

ErrVal(msg) == [kind |-> "error", s |-> msg, n |-> 0]

Digits == <<"0", "1", "2", "3", "4", "5", "6", "7", "8", "9">>

RECURSIVE Itoa(_)
Itoa(n) == IF n < 10 THEN Digits[n + 1] ELSE Itoa(n \div 10) \o Digits[(n % 10) + 1]

\* fmt.Sprint(v), and err.Error() for an error
Sprint(v) == IF v.kind = "int" THEN Itoa(v.n) ELSE v.s

Keys(m) == {p[1] : p \in m}

\* for k, v := range src { dst[k] = v }
Assign(dst, src) == {p \in dst : p[1] \notin Keys(src)} \cup src

MapOf(h, m) == IF m = NilMap THEN {} ELSE h.maps[m]

StoreMap(h, at, content) ==
    [h EXCEPT !.maps = [x \in DOMAIN h.maps \cup {at} |-> IF x = at THEN content ELSE h.maps[x]]]

StoreLogger(h, at, logger) ==
    [h EXCEPT !.loggers =
        [x \in DOMAIN h.loggers \cup {at} |-> IF x = at THEN logger ELSE h.loggers[x]]]

\* an object nothing refers to any more
FreeMap(h, at) == [h EXCEPT !.maps = [x \in DOMAIN h.maps \ {at} |-> h.maps[x]]]

\* copyLabels(m); at is the address of the map that make() returns
copyLabels(h, m, at) ==
    IF Cardinality(MapOf(h, m)) = 0 THEN [h |-> h, ref |-> NilMap]
    ELSE [h |-> StoreMap(h, at, Assign({}, MapOf(h, m))), ref |-> at]

\* mergeLabels(loggerLabels, fieldLabels): logger labels first, then the
\* fields, which override; fieldLabels is a map local to the caller
mergeLabels(h, loggerLabels, fieldLabels, at) ==
    IF Cardinality(MapOf(h, loggerLabels)) + Cardinality(fieldLabels) = 0
    THEN [h |-> h, ref |-> NilMap]
    ELSE [h |-> StoreMap(h, at, Assign(Assign({}, MapOf(h, loggerLabels)), fieldLabels)),
          ref |-> at]

NewLogger(projectID) ==
    [projectID |-> projectID, traceID |-> EmptyStr, spanID |-> EmptyStr,
     traceSampled |-> FALSE, labels |-> NilMap]

Derived(h, ref) == [h |-> h, ref |-> ref, panic |-> FALSE]

\* a nil pointer dereference
Panicked(h) == [h |-> h, ref |-> NilLogger, panic |-> TRUE]

\* faulty variant: the receiver is not checked for nil
WithTraceFromContextNoNilCheck(h, l, tc, atL, atM) ==
    IF l = NilLogger THEN Panicked(h)
    ELSE LET c == copyLabels(h, h.loggers[l].labels, atM)
             out == [NewLogger(h.loggers[l].projectID) EXCEPT !.labels = c.ref]
         IN  Derived(StoreLogger(c.h, atL,
                        IF tc.present /\ tc.TraceID # EmptyStr
                        THEN [out EXCEPT !.traceID = tc.TraceID, !.spanID = tc.SpanID,
                                         !.traceSampled = tc.Sampled]
                        ELSE out), atL)

\* faulty variant: the trace is set on the receiver, which is returned
WithTraceFromContextInPlace(h, l, tc, atL, atM) ==
    IF l = NilLogger THEN Derived(h, NilLogger)
    ELSE Derived(StoreLogger(h, l,
                    IF tc.present /\ tc.TraceID # EmptyStr
                    THEN [h.loggers[l] EXCEPT !.traceID = tc.TraceID, !.spanID = tc.SpanID,
                                              !.traceSampled = tc.Sampled]
                    ELSE h.loggers[l]), l)

\* l.WithTraceFromContext(ctx); tc is ctx.Value(TraceContextKey), atL and atM
\* the addresses of the new Logger and of the copy of its labels
WithTraceFromContext(h, l, tc, atL, atM) ==
    IF l = NilLogger THEN Derived(h, NilLogger)
    ELSE LET c == copyLabels(h, h.loggers[l].labels, atM)
             out == [NewLogger(h.loggers[l].projectID) EXCEPT !.labels = c.ref]
         IN  Derived(StoreLogger(c.h, atL,
                        IF tc.present /\ tc.TraceID # EmptyStr
                        THEN [out EXCEPT !.traceID = tc.TraceID, !.spanID = tc.SpanID,
                                         !.traceSampled = tc.Sampled]
                        ELSE out), atL)

\* the loop of WithParams over keyValues (of even length): pairs whose key is
\* not a string are skipped; a later pair overrides an earlier one
RECURSIVE ExtraLabels(_)
ExtraLabels(keyValues) ==
    IF keyValues = << >> THEN {}
    ELSE LET rest == ExtraLabels(SubSeq(keyValues, 1, Len(keyValues) - 2))
             k == keyValues[Len(keyValues) - 1]
             v == keyValues[Len(keyValues)]
         IN  IF k.kind # "string" THEN rest ELSE Assign(rest, {<<k.s, Sprint(v)>>})

\* faulty variant: the labels are added to the receiver, which is returned
WithParamsInPlace(h, l, keyValues, atL, atM) ==
    IF l = NilLogger THEN Derived(h, NilLogger)
    ELSE IF Len(keyValues) % 2 # 0 THEN Derived(h, l)
    ELSE IF Cardinality(ExtraLabels(keyValues)) = 0 THEN Derived(h, l)
    ELSE LET m == mergeLabels(h, h.loggers[l].labels, ExtraLabels(keyValues), atM)
         IN  Derived(StoreLogger(m.h, l, [h.loggers[l] EXCEPT !.labels = m.ref]), l)

\* l.WithParams(keyValues...)
WithParams(h, l, keyValues, atL, atM) ==
    IF l = NilLogger THEN Derived(h, NilLogger)
    ELSE IF Len(keyValues) % 2 # 0 THEN Derived(h, l)
    ELSE IF Cardinality(ExtraLabels(keyValues)) = 0 THEN Derived(h, l)
    ELSE LET m == mergeLabels(h, h.loggers[l].labels, ExtraLabels(keyValues), atM)
         IN  Derived(StoreLogger(m.h, atL, [h.loggers[l] EXCEPT !.labels = m.ref]), atL)

\* l.WithCurrentUserID(userID): the derivation that attaches the current user
WithCurrentUserID(h, l, userID, atL, atM) ==
    WithParams(h, l, <<StrVal(CurrentUserID), StrVal(userID)>>, atL, atM)

\* buildFieldsFromKeyValues: nil for an odd number of arguments; an error is
\* stored as its message
RECURSIVE FieldsOf(_)
FieldsOf(keyValues) ==
    IF keyValues = << >> THEN {}
    ELSE LET rest == FieldsOf(SubSeq(keyValues, 1, Len(keyValues) - 2))
             k == keyValues[Len(keyValues) - 1]
             v == keyValues[Len(keyValues)]
         IN  IF k.kind # "string" THEN rest
             ELSE Assign(rest, {<<k.s, IF v.kind = "error" THEN StrVal(v.s) ELSE v>>})

buildFieldsFromKeyValues(keyValues) ==
    IF Len(keyValues) % 2 # 0 THEN {} ELSE FieldsOf(keyValues)

fieldsToLabelStrings(fields) == {<<p[1], Sprint(p[2])>> : p \in fields}

\* fmt.Sprintf("projects/%s/traces/%s", projectID, traceID)
TraceRef(projectID, traceID) == <<"projects/", projectID, "/traces/", traceID>>

\* time.Now().UTC().Format(time.RFC3339Nano)
Timestamp(now) == <<"RFC3339Nano", now>>

NoEntry ==
    [Severity |-> "", Message |-> "", Timestamp |-> EmptyStr, Trace |-> EmptyStr,
     SpanID |-> EmptyStr, TraceSampled |-> FALSE, Labels |-> {}]

Written(h, entry) == [h |-> h, wrote |-> TRUE, entry |-> entry, panic |-> FALSE]

NotWritten(h) == [h |-> h, wrote |-> FALSE, entry |-> NoEntry, panic |-> FALSE]

\* faulty variant: the span id is left out of the entry
writeLogNoSpan(h, l, severity, message, fields, now, at) ==
    IF l = NilLogger THEN NotWritten(h)
    ELSE LET lg == h.loggers[l]
             entry == [NoEntry EXCEPT !.Severity = severity, !.Message = message,
                                      !.Timestamp = Timestamp(now)]
             traced == IF lg.traceID = EmptyStr THEN entry
                       ELSE [entry EXCEPT !.TraceSampled = lg.traceSampled,
                                          !.Trace = IF lg.projectID # ""
                                                    THEN TraceRef(lg.projectID, lg.traceID)
                                                    ELSE EmptyStr]
             m == mergeLabels(h, lg.labels, fieldsToLabelStrings(fields), at)
         IN  Written(IF m.ref = at THEN FreeMap(m.h, at) ELSE m.h,
                     [traced EXCEPT !.Labels = MapOf(m.h, m.ref)])

\* l.writeLog(severity, message, fields): the logEntry marshalled to STDOUT;
\* at is the address of the entry's label map, garbage once the line is out
writeLog(h, l, severity, message, fields, now, at) ==
    IF l = NilLogger THEN NotWritten(h)
    ELSE LET lg == h.loggers[l]
             entry == [NoEntry EXCEPT !.Severity = severity, !.Message = message,
                                      !.Timestamp = Timestamp(now)]
             traced == IF lg.traceID = EmptyStr THEN entry
                       ELSE [entry EXCEPT !.SpanID = lg.spanID,
                                          !.TraceSampled = lg.traceSampled,
                                          !.Trace = IF lg.projectID # ""
                                                    THEN TraceRef(lg.projectID, lg.traceID)
                                                    ELSE EmptyStr]
             m == mergeLabels(h, lg.labels, fieldsToLabelStrings(fields), at)
         IN  Written(IF m.ref = at THEN FreeMap(m.h, at) ELSE m.h,
                     [traced EXCEPT !.Labels = MapOf(m.h, m.ref)])

\* l.Debug / l.Info / l.Warn / l.Error (msg, keyValues...), severity being
\* "DEBUG", "INFO", "WARNING" or "ERROR"
LogCall(h, l, severity, msg, keyValues, now, at) ==
    IF l = NilLogger THEN NotWritten(h)
    ELSE writeLog(h, l, severity, msg, buildFieldsFromKeyValues(keyValues), now, at)

Severities == {"DEBUG", "INFO", "WARNING", "ERROR"}

\* the key-values a caller may pass to a log call or to WithParams
KeyValueLists ==
    { << >>,
      <<StrVal(CurrentUserID), StrVal("u1")>>,
      <<StrVal(CurrentUserID), StrVal("u2")>>,
      <<StrVal(UserID), IntVal(17)>>,
      <<StrVal(ErrorParam), ErrVal("boom")>>,
      <<StrVal(UserID)>>,
      <<IntVal(1), StrVal("x")>> }

\* the trace contexts a ctx may hold
TraceContexts == {NoTrace, ParseTraceparent(TpSampled)}

\* the log calls process-level code makes: <<severity, key-values>>
LogCalls ==
    { <<"DEBUG", << >> >>,
      <<"INFO", <<StrVal(UserID), IntVal(17)>> >>,
      <<"INFO", <<StrVal(UserID)>> >>,
      <<"WARNING", <<StrVal(CurrentUserID), StrVal("u2")>> >>,
      <<"ERROR", <<StrVal(ErrorParam), ErrVal("boom")>> >>,
      <<"ERROR", <<IntVal(1), StrVal("x")>> >> }

\* number of Logger structs process-level code creates
MaxLoggers == 2

(* ------------------------------------------------------------------ *)
(* tracing: the X-Cloud-Trace-Context header, the sampler and the spans *)
(* of the OpenTelemetry tracer that tracing.Client wraps                *)
(* ------------------------------------------------------------------ *)

\* strings.Split(s, sep) for a non-empty separator
RECURSIVE SplitStr(_, _, _)
SplitStr(s, sep, cur) ==
    IF Len(s) < Len(sep) THEN <<cur \o s>>
    ELSE IF SubSeq(s, 1, Len(sep)) = sep
         THEN <<cur>> \o SplitStr(SubSeq(s, Len(sep) + 1, Len(s)), sep, << >>)
         ELSE SplitStr(Tail(s), sep, Append(cur, Head(s)))

\* strings.Contains(s, sub)
Contains(s, sub) ==
    \E i \in 1..(Len(s) - Len(sub) + 1) : SubSeq(s, i, i + Len(sub) - 1) = sub

Slash == <<"/">>

SampledSep == <<";", "o", "=">>

\* the three results of ExtractTraceContext
Extracted(traceID, spanID, sampled) ==
    [traceID |-> traceID, spanID |-> spanID, sampled |-> sampled]

\* faulty variant: a header without the ";o=" segment counts as not sampled
ExtractTraceContextDefaultUnsampled(traceHeader) ==
    IF traceHeader = EmptyStr THEN Extracted(EmptyStr, EmptyStr, FALSE)
    ELSE LET parts == SplitStr(traceHeader, Slash, << >>)
         IN  IF Len(parts) < 2 THEN Extracted(EmptyStr, EmptyStr, FALSE)
             ELSE IF Contains(parts[2], SampledSep)
                  THEN LET spanParts == SplitStr(parts[2], SampledSep, << >>)
                       IN  Extracted(parts[1], spanParts[1],
                                     IF Len(spanParts) > 1 THEN spanParts[2] = <<"1">> ELSE FALSE)
                  ELSE Extracted(parts[1], parts[2], FALSE)

\* ExtractTraceContext: TRACE_ID/SPAN_ID;o=TRACE_TRUE
ExtractTraceContext(traceHeader) ==
    IF traceHeader = EmptyStr THEN Extracted(EmptyStr, EmptyStr, FALSE)
    ELSE LET parts == SplitStr(traceHeader, Slash, << >>)
         IN  IF Len(parts) < 2 THEN Extracted(EmptyStr, EmptyStr, FALSE)
             ELSE IF Contains(parts[2], SampledSep)
                  THEN LET spanParts == SplitStr(parts[2], SampledSep, << >>)
                       IN  Extracted(parts[1], spanParts[1],
                                     IF Len(spanParts) > 1 THEN spanParts[2] = <<"1">> ELSE FALSE)
                  ELSE Extracted(parts[1], parts[2], TRUE)

\* an oteltrace.SpanContext; valid = FALSE is the zero SpanContext{}
SpanContext(traceID, spanID, sampled, remote) ==
    [valid |-> TRUE, TraceID |-> traceID, SpanID |-> spanID, sampled |-> sampled,
     remote |-> remote]

NoSpanContext ==
    [valid |-> FALSE, TraceID |-> EmptyStr, SpanID |-> EmptyStr, sampled |-> FALSE,
     remote |-> FALSE]

\* hex.DecodeString(s) returns no error: an even number of hex digits
HexDecodes(s) == Len(s) % 2 = 0 /\ isHex(s)

DecDigits == {Digits[i] : i \in 1..10}

\* the value of a decimal or hex digit
DigitVal(c) ==
    LET lc == ToLower(c)
        hex == Digits \o <<"a", "b", "c", "d", "e", "f">>
    IN  (CHOOSE i \in 1..16 : hex[i] = lc) - 1

\* a < b for digit strings of the same length
RECURSIVE DigitsLess(_, _)
DigitsLess(a, b) ==
    IF a = << >> THEN FALSE
    ELSE IF DigitVal(Head(a)) # DigitVal(Head(b)) THEN DigitVal(Head(a)) < DigitVal(Head(b))
    ELSE DigitsLess(Tail(a), Tail(b))

RECURSIVE StripZeros(_)
StripZeros(s) == IF s # << >> /\ Head(s) = "0" THEN StripZeros(Tail(s)) ELSE s

\* math.MaxUint64 in decimal
MaxUint64 ==
    <<"1", "8", "4", "4", "6", "7", "4", "4", "0", "7", "3", "7", "0", "9", "5", "5", "1", "6", "1", "5">>

\* strconv.ParseUint(s, 10, 64) returns no error
ParseUintOK(s) ==
    /\ s # EmptyStr
    /\ \A i \in 1..Len(s) : s[i] \in DecDigits
    /\ LET v == StripZeros(s)
       IN  \/ Len(v) < Len(MaxUint64)
           \/ Len(v) = Len(MaxUint64) /\ ~DigitsLess(MaxUint64, v)

\* the 64-bit value that ParseUint returns, as its decimal digits ("" is 0)
ParseUint(s) == StripZeros(s)

\* spanContextFromCloudTraceHeader: the parent SpanContext of the header, or
\* the zero SpanContext when the header does not give a valid one
spanContextFromCloudTraceHeader(traceHeader) ==
    LET e == ExtractTraceContext(traceHeader)
    IN  IF e.traceID = EmptyStr \/ e.spanID = EmptyStr THEN NoSpanContext
        ELSE IF ~HexDecodes(e.traceID) \/ Len(e.traceID) # 32 THEN NoSpanContext
        ELSE IF ~ParseUintOK(e.spanID) THEN NoSpanContext
        ELSE IF StripZeros(e.traceID) = EmptyStr \/ ParseUint(e.spanID) = EmptyStr
             THEN NoSpanContext
        ELSE SpanContext(LowerStr(e.traceID), <<"uint64">> \o ParseUint(e.spanID),
                         e.sampled, TRUE)

\* TraceIDRatioBased(0.1): uint64(0.1 * 2^63) is 0x0ccccccccccccd00, and the
\* low 8 bytes x of the trace id are sampled when x >> 1 is below it
RatioBound ==
    <<"1", "9", "9", "9", "9", "9", "9", "9", "9", "9", "9", "9", "9", "a", "0", "0">>

TraceIDRatioBased(traceID) == DigitsLess(SubSeq(traceID, 17, 32), RatioBound)

\* a *tracing.Client; present = FALSE is the nil client
Tracer(isDebug) == [present |-> TRUE, isDebug |-> isDebug]

NoTracer == [present |-> FALSE, isDebug |-> FALSE]

\* NewClient's sampler: AlwaysSample() when isDebug, otherwise
\* ParentBased(TraceIDRatioBased(0.1)), which follows a valid parent (local
\* or remote) and asks the ratio sampler for a root
ShouldSample(tracer, parent, traceID) ==
    IF tracer.isDebug THEN TRUE
    ELSE IF parent.valid THEN parent.sampled
    ELSE TraceIDRatioBased(traceID)

NoSpanID == EmptyStr

\* a span as the tracer's Start made it; ends counts the calls of End that
\* reached the otel span
StartedSpan(name, sc, parent) ==
    [name |-> name, sc |-> sc, parent |-> parent, ends |-> 0]

\* tracer.Start(ctx, name): the parent is the SpanContext in ctx; a root gets
\* the trace id the id generator mints; spanID is the minted span id
Start(tracer, parent, name, newTraceID, spanID) ==
    LET traceID == IF parent.valid THEN parent.TraceID ELSE newTraceID
    IN  StartedSpan(name,
                    SpanContext(traceID, spanID, ShouldSample(tracer, parent, traceID), FALSE),
                    parent)

\* the trace ids the id generator may mint: the first is sampled by the ratio
\* sampler, the second is not
MintedLow ==
    <<"a", "1", "a", "1", "a", "1", "a", "1", "a", "1", "a", "1", "a", "1", "a", "1",
      "0", "0", "0", "0", "0", "0", "0", "0", "0", "0", "0", "0", "0", "0", "0", "1">>

MintedHigh ==
    <<"b", "2", "b", "2", "b", "2", "b", "2", "b", "2", "b", "2", "b", "2", "b", "2",
      "f", "f", "0", "0", "0", "0", "0", "0", "0", "0", "0", "0", "0", "0", "0", "1">>

MintedTraceIDs == {MintedLow, MintedHigh}

\* X-Cloud-Trace-Context header values
CloudTrace(traceID, spanID, flag) == traceID \o Slash \o spanID \o SampledSep \o flag

LegacyTraceId ==
    <<"1", "0", "5", "4", "4", "5", "a", "a", "7", "8", "4", "3", "b", "c", "8", "b",
      "f", "2", "0", "6", "b", "1", "2", "0", "0", "0", "1", "0", "0", "0">>

XcLegacy1 == CloudTrace(LegacyTraceId, <<"0">>, <<"1">>)

XcLegacy0 == CloudTrace(LegacyTraceId, <<"0">>, <<"0">>)

XcSampled == CloudTrace(TraceIdA, <<"1", "2">>, <<"1">>)

XcUnsampled == CloudTrace(TraceIdA, <<"1", "2">>, <<"0">>)

XcNoFlag == TraceIdB \o Slash \o <<"7">>

XcUpperCase == CloudTrace(TraceIdC, <<"0", "7">>, <<"1">>)

XcNoSlash == TraceIdA

XcZeroSpan == CloudTrace(TraceIdA, <<"0">>, <<"1">>)

XcBadSpan == CloudTrace(TraceIdA, <<"x">>, <<"1">>)

XcMaxSpan == CloudTrace(TraceIdA, MaxUint64, <<"1">>)

XcBigSpan == CloudTrace(TraceIdA, <<"1", "8", "4", "4", "6", "7", "4", "4", "0", "7", "3", "7", "0", "9", "5", "5", "1", "6", "1", "6">>, <<"0">>)

CloudTraceHeaders ==
    {EmptyStr, XcLegacy1, XcLegacy0, XcSampled, XcUnsampled, XcNoFlag, XcUpperCase,
     XcNoSlash, XcZeroSpan, XcBadSpan, XcMaxSpan, XcBigSpan}

\* ExtractTraceContext and spanContextFromCloudTraceHeader for each header a
\* client may send
ExtractedOf == [header \in CloudTraceHeaders |-> ExtractTraceContext(header)]

ParentOf == [header \in CloudTraceHeaders |-> spanContextFromCloudTraceHeader(header)]

(* ------------------------------------------------------------------ *)
(* State                                                                *)
(* ------------------------------------------------------------------ *)

VARIABLES
    auth,        \* the Authenticator built by NewAuthenticator
    cacheOnce,   \* a.cacheOnce: "idle", "running" (f is executing) or "done"
    cacheErr,    \* a.cacheErr ("" is nil)
    cache,       \* a.cache: the jwk.Cache and the context its workers live on
    req,         \* the goroutines: HTTP requests and direct callers
    registers,   \* number of cache.Register calls so far
    initFetches, \* number of cache.Refresh calls made by ensureCache so far
    fetched,     \* the URLs key material was requested from
    lastGood,    \* the key set of the last successful fetch
    loggers,     \* the heap of Logger structs
    maps,        \* the heap of label maps
    scope,       \* per goroutine: the trace context and the logger in its ctx,
                 \* and the lines it wrote to STDOUT; NoReq is the process (main)
    call,        \* the last call of the logging API made by process-level code
    derived,     \* the derivations made by process-level code: which logger
                 \* from which, and what the derivation attached
    tracer,      \* the *tracing.Client in the server's ctx (nil when NewClient failed)
    spans,       \* the spans the tracer started, by span id
    work,        \* per goroutine: the tracing state of its ctx and the position
                 \* of its handler; NoReq is the process (main)
    db           \* the Firestore documents: users and their friends collections

vars ==
    <<auth, cacheOnce, cacheErr, cache, req, registers, initFetches, fetched, lastGood,
      loggers, maps, scope, call, derived, tracer, spans, work, db>>

appVars == <<tracer, spans, work, db>>

logVars == <<loggers, maps, scope, call, derived>>

cacheVars == <<cacheOnce, cacheErr, cache, registers, initFetches, fetched, lastGood>>

\* owner: the goroutine whose ctx was given to jwk.NewCache (NoReq once that
\* goroutine has moved on to another call); alive: that ctx is not done yet
NoCache ==
    [created |-> FALSE, registered |-> FALSE, owner |-> NoReq, alive |-> FALSE, data |-> NoKeys]

IdleReq ==
    [ pc |-> "idle", route |-> "", authz |-> EmptyStr, token |-> EmptyStr,
      ctxDone |-> FALSE, verifyCalled |-> FALSE, touched |-> FALSE,
      keys |-> NoKeys, res |-> Result(NoClaims, ErrNone, ErrNone), initFetch |-> "", hadKeys |-> FALSE,
      status |-> 0, body |-> "", user |-> NoUser, handler |-> "" ]

\* the address of the Logger that main creates
BaseLogger == <<NoReq, 1>>

Heap == [loggers |-> loggers, maps |-> maps]

IdleScope ==
    [tp |-> EmptyStr, tc |-> NoTrace, logger |-> NilLogger, recs |-> << >>, panicked |-> FALSE]

NoCall ==
    [op |-> "", on |-> NilLogger, keyValues |-> << >>, ref |-> NilLogger,
     wrote |-> FALSE, entry |-> NoEntry, panic |-> FALSE]

\* main: logger, err := logging.NewLogger(ctx, cfg.ProjectID), stored in the ctx
\* the server is built on; withLogger = FALSE is a ctx that holds no logger
InitLogging(slots, withLogger) ==
    /\ loggers = IF withLogger
                 THEN [x \in {BaseLogger} |-> NewLogger(auth.projectID)]
                 ELSE [x \in {} |-> NewLogger(auth.projectID)]
    /\ maps = [x \in {} |-> {}]
    /\ scope = [r \in slots \cup {NoReq} |->
                  IF r = NoReq /\ withLogger THEN [IdleScope EXCEPT !.logger = BaseLogger]
                  ELSE IdleScope]
    /\ call = NoCall
    /\ derived = {}

InitAuth(slots) ==
    /\ auth \in {NewAuthenticator(p, f) : p \in ProjectIDs, f \in FirebaseProjectIDs}
    /\ cacheOnce = "idle"
    /\ cacheErr = ErrNone
    /\ cache = NoCache
    /\ req = [r \in slots |-> IdleReq]
    /\ registers = 0
    /\ initFetches = 0
    /\ fetched = {}
    /\ lastGood = NoKeys

\* a user document; exists = FALSE is a document that is not there
UserDoc(shareToken) == [exists |-> TRUE, ShareToken |-> shareToken]

NoDoc == [exists |-> FALSE, ShareToken |-> ""]

UserIDs == {"u1", "u2"}

\* an empty database
NoData == [users |-> [u \in UserIDs |-> NoDoc], friends |-> {}, uuids |-> 0]

\* pc: "idle", "chain" (in the middleware chain), a position inside the
\* handler, or "returned" (the chain has returned: the response is complete).
\* ctx is the SpanContext in c.Request's ctx; mw, hspan, dbSpan, dbSpan2 are
\* the spans of tracingMiddleware and of the handler (NoSpanID: none).
IdleWork ==
    [ pc |-> "idle", xc |-> EmptyStr, called |-> FALSE,
      extracted |-> Extracted(EmptyStr, EmptyStr, FALSE),
      ctx |-> NoSpanContext, mw |-> NoSpanID,
      hctx |-> NoSpanContext, hspan |-> NoSpanID, dbSpan |-> NoSpanID, dbSpan2 |-> NoSpanID,
      status |-> 0, panicked |-> FALSE, shareToken |-> "", seen |-> FALSE,
      fn |-> "", ran |-> FALSE, result |-> "" ]

\* main: traceClient, err := tracing.NewClient(ctx, cfg.ProjectID, cfg.IsDebug),
\* stored in the ctx the server is built on unless it is nil
InitApp(slots, client, data) ==
    /\ tracer = client
    /\ spans = [x \in {} |-> StartedSpan("", NoSpanContext, NoSpanContext)]
    /\ work = [r \in slots \cup {NoReq} |-> IdleWork]
    /\ db = data

InitWith(slots) == InitAuth(slots) /\ InitLogging(slots, TRUE) /\ InitApp(slots, NoTracer, NoData)

(* ------------------------------------------------------------------ *)
(* The key cache (jwk.Cache as ensureCache and VerifyIDToken use it)    *)
(* ------------------------------------------------------------------ *)

FetchOK(ks) == [err |-> ErrNone, keys |-> ks]

FetchErr(e) == [err |-> e, keys |-> NoKeys]

\* what one fetch of url can end with: the fetch whitelist refuses any url it
\* does not hold; otherwise the endpoint answers a key set, or the fetch fails
\* (network error or malformed response)
FetchResults(url, whitelist) ==
    IF url \notin whitelist THEN {FetchErr("rejected by whitelist")}
    ELSE {FetchOK(ks) : ks \in KeySets} \cup {FetchErr("fetch failed")}

\* the fetch put a request on the network
OnNetwork(out) == out.err \in {ErrNone, "fetch failed"}

\* faulty variant: a check of the flag without the lock of sync.Once
OnceMayEnterUnlocked(once) == once # "done"

\* faulty variant: a failed initialisation is run again by the next caller
OnceMayEnterRetrying(once) == once = "idle" \/ (once = "done" /\ cacheErr # ErrNone)

\* cacheOnce.Do(f): f is run by the first caller only
OnceMayEnter(once) == once = "idle"

\* cacheOnce.Do returns to a caller only when f has returned
OnceReturned(once) == once = "done"

\* the context handed to jwk.NewCache: the caller's own ctx. The cache's fetch
\* and refresh workers stop when that context is done.
CacheCtx(r) == r

WorkerAlive == cache.created /\ cache.alive

\* the cache after goroutine r's request became q: its workers stop as soon as
\* the ctx they were started on is done
CacheSeeing(c, r, q) == [c EXCEPT !.alive = @ /\ ~(c.owner = r /\ q.ctxDone)]

\* faulty variant: the error of the initial Refresh is dropped
CacheErrIgnoringRefresh(refreshErr) == ErrNone

\* _, a.cacheErr = a.cache.Refresh(ctx, a.jwksURL)
CacheErrAfterRefresh(refreshErr) == refreshErr

\* a.cache.Get(ctx, a.jwksURL): the cached set once one is stored; a
\* synchronous fetch only while nothing is stored
ReadKeySet(c, url, whitelist) ==
    IF c.data.present THEN {FetchOK(c.data)} ELSE FetchResults(url, whitelist)

(* ------------------------------------------------------------------ *)
(* Requests                                                             *)
(* ------------------------------------------------------------------ *)

HandlerOf(route) == IF route \in UnmatchedRoutes THEN "staticHandler" ELSE route

\* the route's handler runs (c.Next() or no middleware) and the request ends;
\* net/http cancels the request's context when ServeHTTP returns
Served(q, user) ==
    [q EXCEPT !.pc = "done", !.status = 200, !.handler = HandlerOf(q.route),
              !.user = user, !.ctxDone = TRUE]

\* c.AbortWithStatusJSON(401, {"error": msg}); return
Aborted(q, msg) ==
    [q EXCEPT !.pc = "done", !.status = 401, !.body = msg, !.ctxDone = TRUE]

\* VerifyIDToken returns result to its caller: authMiddleware (lines 143-152)
\* or a direct caller
Returned(q, result) ==
    LET q1 == [q EXCEPT !.res = result]
    IN  IF q.route = Direct THEN [q1 EXCEPT !.pc = "done"]
        ELSE IF result.err # ErrNone THEN Aborted(q1, "invalid token")
        ELSE Served(q1, UserFromClaims(result.claims))

\* the address of the label map of the entry that goroutine r is writing
EntryMap(r) == <<r, -1>>

\* the instant the clock shows when a line is written
Now == "2026-01-01T00:00:00Z"

ScopeResult(h, sc) == [h |-> h, sc |-> sc]

\* the line of a log call, as the goroutine's output records it
Logged(sc, l, w) ==
    IF w.wrote THEN [sc EXCEPT !.recs = Append(@, [logger |-> l, entry |-> w.entry])] ELSE sc

\* fmt.Errorf("%s: %w", ...).Error()
ErrorText(res) == IF res.cause = ErrNone THEN res.err ELSE res.err \o ": " \o res.cause

\* the handler of a protected route (the database calls succeed): it takes the
\* logger from the request's ctx and logs its start, then its success with the
\* user's id; the handlers of the public routes log failures only
HandlerLogs(h, sc, r, q) ==
    IF ~UsesAuthMiddleware(q.route) THEN ScopeResult(h, sc)
    ELSE LET w1 == LogCall(h, sc.logger, "INFO", "received", << >>, Now, EntryMap(r))
             w2 == LogCall(w1.h, sc.logger, "INFO", "succeeded",
                           <<StrVal(UserID), StrVal(q.user.UserID)>>, Now, EntryMap(r))
         IN  ScopeResult(w2.h, Logged(Logged(sc, sc.logger, w1), sc.logger, w2))

\* authMiddleware lines 143-152, VerifyIDToken having returned q.res: the
\* warning on failure; on success the logger with the user's id replaces the
\* request logger in the ctx and the handler runs
AfterVerify(h, sc, r, q) ==
    IF q.res.err # ErrNone
    THEN LET w == LogCall(h, sc.logger, "WARNING", "Token verification failed",
                          <<StrVal(ErrorParam), ErrVal(ErrorText(q.res))>>, Now, EntryMap(r))
         IN  ScopeResult(w.h, Logged(sc, sc.logger, w))
    ELSE LET u == WithCurrentUserID(h, sc.logger, q.user.UserID, <<r, 2>>, <<r, 2>>)
         IN  HandlerLogs(u.h, [sc EXCEPT !.logger = u.ref, !.panicked = @ \/ u.panic], r, q)

\* traceparentMiddleware and contextMiddleware: the parsed Traceparent goes
\* into the request's ctx, then the request logger derived from the logger of
\* the server's ctx
RequestScope(h, r, tp) ==
    LET tc == ParsedTraceparent[tp]
        w == WithTraceFromContext(h, scope[NoReq].logger, tc, <<r, 1>>, <<r, 1>>)
    IN  ScopeResult(w.h, [IdleScope EXCEPT !.tp = tp, !.tc = tc, !.logger = w.ref,
                                           !.panicked = w.panic])

SetLogging(out, r) ==
    /\ loggers' = out.h.loggers
    /\ maps' = out.h.maps
    /\ scope' = [scope EXCEPT ![r] = out.sc]
    /\ UNCHANGED <<call, derived>>

\* what the return of VerifyIDToken to authMiddleware logs
AuthLogging(r) ==
    IF req'[r].pc = "done" /\ req'[r].route # Direct
    THEN SetLogging(AfterVerify(Heap, scope[r], r, req'[r]), r)
    ELSE UNCHANGED logVars

\* main logs a line with the logger of its ctx (logging.LogInfo: only when the
\* ctx holds a logger)
ProcessLog ==
    /\ scope[NoReq].logger # NilLogger
    /\ LET w == LogCall(Heap, scope[NoReq].logger, "INFO", "Shutting down server...",
                        << >>, Now, EntryMap(NoReq))
       IN  /\ loggers' = w.h.loggers
           /\ maps' = w.h.maps
           /\ scope' = [scope EXCEPT ![NoReq] =
                          Logged([@ EXCEPT !.recs = << >>], scope[NoReq].logger, w)]
    /\ UNCHANGED <<auth, cacheVars, req, call, derived, appVars>>

\* the address process-level code gets for its next Logger and its labels
NextAddr == <<NoReq, Cardinality(DOMAIN loggers) + 1>>

Labels(h, l) == IF l = NilLogger THEN {} ELSE MapOf(h, h.loggers[l].labels)

TraceOf(h, l) == IF l = NilLogger THEN EmptyStr ELSE h.loggers[l].traceID

\* the record of a derivation: what the receiver carried and what the result
\* carries
Derivation(h, l, w) ==
    [from |-> l, to |-> w.ref,
     fromLabels |-> Labels(h, l), fromTrace |-> TraceOf(h, l),
     toLabels |-> Labels(w.h, w.ref), toTrace |-> TraceOf(w.h, w.ref)]

SetDerived(l, op, keyValues, w) ==
    /\ loggers' = w.h.loggers
    /\ maps' = w.h.maps
    /\ call' = [NoCall EXCEPT !.op = op, !.on = l, !.keyValues = keyValues,
                              !.ref = w.ref, !.panic = w.panic]
    /\ derived' = IF w.ref = NilLogger THEN derived
                  ELSE derived \cup {Derivation(Heap, l, w)}
    /\ UNCHANGED <<auth, cacheVars, req, scope, appVars>>

\* process-level code calls l.WithTraceFromContext(ctx), ctx holding tc
ApiWithTrace(l, tc) ==
    /\ Cardinality(DOMAIN loggers) < MaxLoggers
    /\ SetDerived(l, "WithTraceFromContext", << >>,
                  WithTraceFromContext(Heap, l, tc, NextAddr, NextAddr))

\* process-level code calls l.WithParams(keyValues...)
ApiWithParams(l, keyValues) ==
    /\ Cardinality(DOMAIN loggers) < MaxLoggers
    /\ SetDerived(l, "WithParams", keyValues,
                  WithParams(Heap, l, keyValues, NextAddr, NextAddr))

\* process-level code calls l.Debug, l.Info, l.Warn or l.Error
ApiLog(l, severity, keyValues) ==
    /\ LET w == LogCall(Heap, l, severity, "message", keyValues, Now, EntryMap(NoReq))
       IN  /\ loggers' = w.h.loggers
           /\ maps' = w.h.maps
           /\ call' = [NoCall EXCEPT !.op = severity, !.on = l, !.keyValues = keyValues,
                                     !.wrote = w.wrote, !.entry = w.entry, !.panic = w.panic]
    /\ UNCHANGED <<auth, cacheVars, req, scope, derived, appVars>>

(* ------------------------------------------------------------------ *)
(* Spans of a request: tracingMiddleware and the handlers               *)
(* ------------------------------------------------------------------ *)

\* the span id the id generator mints for the k-th span of goroutine r
MintedSpanID(r, k) == <<"minted", Digits[r + 1], Digits[k + 1]>>

SpansOf(sp, r) == {id \in DOMAIN sp : id[2] = Digits[r + 1]}

Put(sp, id, s) == [x \in DOMAIN sp \cup {id} |-> IF x = id THEN s ELSE sp[x]]

\* Span.End: the nil check, then the otel span's End
End(sp, span) == IF span = NoSpanID THEN sp ELSE [sp EXCEPT ![span].ends = @ + 1]

\* what tracing.New returns: the ctx (its SpanContext) and the *Span
Opened(sp, ctx, span, panic) == [spans |-> sp, ctx |-> ctx, span |-> span, panic |-> panic]

\* faulty variant: the nil client is used
NewNoNilCheck(tr, sp, ctx, name, newTraceID, id) ==
    IF ~tr.present THEN Opened(sp, ctx, NoSpanID, TRUE)
    ELSE LET s == Start(tr, ctx, name, newTraceID, id)
         IN  Opened(Put(sp, id, s), s.sc, id, FALSE)

\* tracing.New(ctx, name): without a client the ctx comes back as it is, with
\* &Span{}; otherwise the span started from ctx and the ctx that holds it
New(tr, sp, ctx, name, newTraceID, id) ==
    IF ~tr.present THEN Opened(sp, ctx, NoSpanID, FALSE)
    ELSE LET s == Start(tr, ctx, name, newTraceID, id)
         IN  Opened(Put(sp, id, s), s.sc, id, FALSE)

\* what fn did inside SafeSpan
FnOutcomes == {"nil", "error", "panic"}

\* what SafeSpan hands back: ran: fn was called; result: what SafeSpan returned
\* ("panic": the panic of fn went on to the caller)
SafeSpanResult(sp, ran, result) == [spans |-> sp, ran |-> ran, result |-> result]

\* tracing.SafeSpan(ctx, nil, spanName, fn): the client comes from ctx
SafeSpan(tr, sp, ctx, name, newTraceID, id, fnOut) ==
    IF ~tr.present THEN SafeSpanResult(sp, TRUE, fnOut)
    ELSE LET s == Start(tr, ctx, name, newTraceID, id)
         IN  SafeSpanResult(End(Put(sp, id, s), id), TRUE, fnOut)

\* the spans and the goroutine's frame after a step
Frame(sp, w) == [spans |-> sp, w |-> w]

\* tracingMiddleware up to c.Next(): with a client and a non-empty
\* X-Cloud-Trace-Context header, StartSpanFromHeader starts the server span,
\* below the header's SpanContext when that is valid
TracingEnter(tr, sp, r, xc, newTraceID) ==
    IF tr.present /\ xc # EmptyStr
    THEN LET s == Start(tr, ParentOf[xc], "server", newTraceID, MintedSpanID(r, 1))
         IN  Frame(Put(sp, MintedSpanID(r, 1), s),
                   [IdleWork EXCEPT !.pc = "chain", !.xc = xc, !.called = TRUE,
                                    !.extracted = ExtractedOf[xc],
                                    !.ctx = s.sc, !.mw = MintedSpanID(r, 1)])
    ELSE Frame(sp, [IdleWork EXCEPT !.pc = "chain", !.xc = xc])

\* the chain returns to tracingMiddleware (also when the handler panicked):
\* the deferred span.End() runs
TracingReturn(f) == Frame(End(f.spans, f.w.mw), [f.w EXCEPT !.pc = "returned"])

\* database calls of a handler: what the call did
DbOutcomes == {"ok", "error", "panic"}

\* a handler whose only span is its own: ctx, span := tracing.New(ctx, name);
\* defer span.End(); out is what the handler's work did
PlainHandler(tr, sp, w, r, name, newTraceID, out) ==
    LET h == New(tr, sp, w.ctx, name, newTraceID, MintedSpanID(r, 2))
        w1 == [w EXCEPT !.hctx = h.ctx, !.hspan = h.span]
    IN  IF h.panic THEN Frame(h.spans, [w EXCEPT !.panicked = TRUE, !.status = 500])
        ELSE IF out = "panic"
             THEN Frame(End(h.spans, h.span), [w1 EXCEPT !.panicked = TRUE, !.status = 500])
        ELSE Frame(End(h.spans, h.span), [w1 EXCEPT !.status = IF out = "error" THEN 500 ELSE 200])

\* faulty variant: the second database span is opened from dbCtx
GetListHandlerChained(tr, sp, w, r, userID, data, newTraceID, out1, out2) ==
    LET h == New(tr, sp, w.ctx, "GetListHandler", newTraceID, MintedSpanID(r, 2))
        d1 == New(tr, h.spans, h.ctx, "database::GetUserByID", newTraceID, MintedSpanID(r, 3))
        w1 == [w EXCEPT !.hctx = h.ctx, !.hspan = h.span, !.dbSpan = d1.span]
        e1 == End(d1.spans, d1.span)
        d2 == New(tr, e1, d1.ctx, "database::GetCountryVisitsByUser", newTraceID,
                  MintedSpanID(r, 4))
        w2 == [w1 EXCEPT !.dbSpan2 = d2.span]
        e2 == End(d2.spans, d2.span)
    IN  IF h.panic THEN Frame(h.spans, [w EXCEPT !.panicked = TRUE, !.status = 500])
        ELSE IF out1 = "panic"
             THEN Frame(End(d1.spans, h.span), [w1 EXCEPT !.panicked = TRUE, !.status = 500])
        ELSE IF out1 = "error" THEN Frame(End(e1, h.span), [w1 EXCEPT !.status = 500])
        ELSE IF ~data.users[userID].exists THEN Frame(End(e1, h.span), [w1 EXCEPT !.status = 404])
        ELSE IF out2 = "panic"
             THEN Frame(End(d2.spans, h.span), [w2 EXCEPT !.panicked = TRUE, !.status = 500])
        ELSE IF out2 = "error" THEN Frame(End(e2, h.span), [w2 EXCEPT !.status = 500])
        ELSE Frame(End(e2, h.span), [w2 EXCEPT !.status = 200])

\* GetListHandler: the handler span (ended by defer), then a span around
\* GetUserByID and one around GetCountryVisitsByUser, both opened from the
\* handler's ctx and ended by a plain call after the database call returned
GetListHandler(tr, sp, w, r, userID, data, newTraceID, out1, out2) ==
    LET h == New(tr, sp, w.ctx, "GetListHandler", newTraceID, MintedSpanID(r, 2))
        d1 == New(tr, h.spans, h.ctx, "database::GetUserByID", newTraceID, MintedSpanID(r, 3))
        w1 == [w EXCEPT !.hctx = h.ctx, !.hspan = h.span, !.dbSpan = d1.span]
        e1 == End(d1.spans, d1.span)
        d2 == New(tr, e1, h.ctx, "database::GetCountryVisitsByUser", newTraceID,
                  MintedSpanID(r, 4))
        w2 == [w1 EXCEPT !.dbSpan2 = d2.span]
        e2 == End(d2.spans, d2.span)
    IN  IF h.panic THEN Frame(h.spans, [w EXCEPT !.panicked = TRUE, !.status = 500])
        ELSE IF out1 = "panic"
             THEN Frame(End(d1.spans, h.span), [w1 EXCEPT !.panicked = TRUE, !.status = 500])
        ELSE IF out1 = "error" THEN Frame(End(e1, h.span), [w1 EXCEPT !.status = 500])
        ELSE IF ~data.users[userID].exists THEN Frame(End(e1, h.span), [w1 EXCEPT !.status = 404])
        ELSE IF out2 = "panic"
             THEN Frame(End(d2.spans, h.span), [w2 EXCEPT !.panicked = TRUE, !.status = 500])
        ELSE IF out2 = "error" THEN Frame(End(e2, h.span), [w2 EXCEPT !.status = 500])
        ELSE Frame(End(e2, h.span), [w2 EXCEPT !.status = 200])

\* PostLoginHandler up to the ref.Get of EnsureUser: seen is whether the
\* user's document was there
PostLoginEnter(tr, sp, w, r, userID, data, newTraceID) ==
    LET h == New(tr, sp, w.ctx, "PostLoginHandler", newTraceID, MintedSpanID(r, 2))
    IN  IF h.panic THEN TracingReturn(Frame(h.spans, [w EXCEPT !.panicked = TRUE, !.status = 500]))
        ELSE Frame(h.spans, [w EXCEPT !.hctx = h.ctx, !.hspan = h.span, !.pc = "EnsureUser",
                                      !.seen = data.users[userID].exists])

\* PostFriendsHandler up to GetUserByShareToken: 400 for a body without a
\* ShareToken, 404 when no user has the ShareToken of the body
PostFriendsEnter(tr, sp, w, r, data, newTraceID, shareToken) ==
    LET h == New(tr, sp, w.ctx, "PostFriendsHandler", newTraceID, MintedSpanID(r, 2))
        w1 == [w EXCEPT !.hctx = h.ctx, !.hspan = h.span, !.shareToken = shareToken]
    IN  IF h.panic THEN TracingReturn(Frame(h.spans, [w EXCEPT !.panicked = TRUE, !.status = 500]))
        ELSE IF shareToken = ""
             THEN TracingReturn(Frame(End(h.spans, h.span), [w1 EXCEPT !.status = 400]))
        ELSE IF \E u \in UserIDs : data.users[u] = UserDoc(shareToken)
             THEN Frame(h.spans, [w1 EXCEPT !.pc = "AddFriend"])
        ELSE TracingReturn(Frame(End(h.spans, h.span), [w1 EXCEPT !.status = 404]))

\* the handler of the request's route runs up to its first write to the
\* database or to its return
HandlerRun(tr, sp, w, r, q, data, newTraceID, out1, out2, shareToken) ==
    CASE q.handler = "GET /visits" ->
            TracingReturn(GetListHandler(tr, sp, w, r, q.user.ID, data, newTraceID, out1, out2))
      [] q.handler = "POST /login" -> PostLoginEnter(tr, sp, w, r, q.user.ID, data, newTraceID)
      [] q.handler = "POST /friends" -> PostFriendsEnter(tr, sp, w, r, data, newTraceID, shareToken)
      [] q.handler = "staticHandler" -> TracingReturn(Frame(sp, [w EXCEPT !.status = 200]))
      [] OTHER -> TracingReturn(PlainHandler(tr, sp, w, r, q.handler, newTraceID, out1))

SetTracing(f, r) ==
    /\ spans' = f.spans
    /\ work' = [work EXCEPT ![r] = f.w]

\* the chain returns without a handler when authMiddleware aborted
AuthTracing(r) ==
    IF req'[r].pc = "done" /\ req'[r].route # Direct /\ req'[r].handler = ""
    THEN SetTracing(TracingReturn(Frame(spans, work[r])), r)
    ELSE UNCHANGED <<spans, work>>

\* the router calls the handler the chain has reached
HandlerEnter(r, newTraceID, out1, out2, shareToken) ==
    /\ req[r].pc = "done"
    /\ req[r].handler # ""
    /\ work[r].pc = "chain"
    /\ SetTracing(HandlerRun(tracer, spans, work[r], r, req[r], db, newTraceID, out1, out2,
                             shareToken), r)
    /\ UNCHANGED <<auth, cacheVars, req, logVars, tracer, db>>

\* uuid.New().String()
NewUUID(n) == "uuid-" \o Digits[n + 1]

\* the document id of coll.NewDoc()
NewDocID(friends) == "doc-" \o Digits[Cardinality(friends) + 1]

Friend(owner, id, shareToken) == [owner |-> owner, ID |-> id, ShareToken |-> shareToken]

\* EnsureUser after ref.Get: ref.Set of a document with a new ShareToken when
\* the document was not found, ref.Update of ImageURL when it was; then
\* PostLoginHandler returns 200
EnsureUserWrite(r) ==
    /\ work[r].pc = "EnsureUser"
    /\ db' = IF work[r].seen THEN db
             ELSE [db EXCEPT !.users[req[r].user.ID] = UserDoc(NewUUID(db.uuids)),
                             !.uuids = @ + 1]
    /\ SetTracing(TracingReturn(Frame(End(spans, work[r].hspan),
                                      [work[r] EXCEPT !.status = 200])), r)
    /\ UNCHANGED <<auth, cacheVars, req, logVars, tracer>>

\* AddFriend: the query for a friend with the ShareToken; 409 when one exists
AddFriendQuery(r) ==
    /\ work[r].pc = "AddFriend"
    /\ LET exists == \E f \in db.friends :
                        f.owner = req[r].user.ID /\ f.ShareToken = work[r].shareToken
       IN  SetTracing(IF exists
                      THEN TracingReturn(Frame(End(spans, work[r].hspan),
                                               [work[r] EXCEPT !.status = 409]))
                      ELSE Frame(spans, [work[r] EXCEPT !.pc = "AddFriendSet"]), r)
    /\ UNCHANGED <<auth, cacheVars, req, logVars, tracer, db>>

\* AddFriend: ref.Set of the new friend document; PostFriendsHandler returns 201
AddFriendSet(r) ==
    /\ work[r].pc = "AddFriendSet"
    /\ db' = [db EXCEPT !.friends = @ \cup {Friend(req[r].user.ID, NewDocID(db.friends),
                                                  work[r].shareToken)}]
    /\ SetTracing(TracingReturn(Frame(End(spans, work[r].hspan),
                                      [work[r] EXCEPT !.status = 201])), r)
    /\ UNCHANGED <<auth, cacheVars, req, logVars, tracer>>

\* main runs a piece of its work inside tracing.SafeSpan(ctx, nil, name, fn)
MainSafeSpan(newTraceID, fnOut) ==
    /\ work[NoReq].pc = "idle"
    /\ LET s == SafeSpan(tracer, spans, NoSpanContext, "server.NewServer", newTraceID,
                         MintedSpanID(NoReq, 1), fnOut)
       IN  /\ spans' = s.spans
           /\ work' = [work EXCEPT ![NoReq] = [IdleWork EXCEPT !.pc = "returned", !.fn = fnOut,
                                                              !.ran = s.ran, !.result = s.result]]
    /\ UNCHANGED <<auth, cacheVars, req, logVars, tracer, db>>

\* the router dispatches a request through the middleware chain
\* (traceparentMiddleware, contextMiddleware, tracingMiddleware);
\* authMiddleware checks the header
Receive(r, route, authz, tp, xc, newTraceID) ==
    /\ req[r].pc = "idle"
    /\ LET q == [req[r] EXCEPT !.route = route]
           h == [q EXCEPT !.authz = authz]
       IN  req' = [req EXCEPT ![r] =
                IF ~UsesAuthMiddleware(route) THEN Served(q, NoUser)
                ELSE IF HeaderRejection(authz) # ErrNone THEN Aborted(h, HeaderRejection(authz))
                ELSE [h EXCEPT !.pc = "verify", !.token = BearerToken(authz),
                               !.verifyCalled = TRUE]]
    /\ LET s == RequestScope(Heap, r, tp)
       IN  SetLogging(IF req'[r].handler # "" THEN HandlerLogs(s.h, s.sc, r, req'[r]) ELSE s, r)
    /\ LET f == TracingEnter(tracer, spans, r, xc, newTraceID)
       IN  SetTracing(IF req'[r].pc = "done" /\ req'[r].handler = "" THEN TracingReturn(f) ELSE f, r)
    /\ UNCHANGED <<auth, cacheVars, tracer, db>>

\* some other caller invokes a.VerifyIDToken(ctx, tok)
DirectCall(r, tok) ==
    /\ req[r].pc = "idle"
    /\ req' = [req EXCEPT ![r] = [@ EXCEPT !.pc = "verify", !.route = Direct,
                                           !.token = tok, !.verifyCalled = TRUE]]
    /\ UNCHANGED <<auth, cacheVars, logVars, appVars>>

\* VerifyIDToken lines 82-84: the empty token is refused first
VerifyEntry(r) ==
    /\ req[r].pc = "verify"
    /\ req' = [req EXCEPT ![r] =
            IF @.token = EmptyStr THEN Returned(@, Failed("token is empty", ErrNone))
            ELSE [@ EXCEPT !.pc = "ensure", !.hadKeys = lastGood.present]]
    /\ cache' = CacheSeeing(cache, r, req'[r])
    /\ AuthLogging(r)
    /\ AuthTracing(r)
    /\ UNCHANGED <<auth, cacheOnce, cacheErr, registers, initFetches, fetched, lastGood, tracer, db>>

\* ensureCache: the caller that wins cacheOnce creates the cache on its own
\* ctx, registers the URL and starts the initial Refresh
EnsureEnter(r, regOK) ==
    /\ req[r].pc = "ensure"
    /\ OnceMayEnter(cacheOnce)
    /\ cache' = [created |-> TRUE, registered |-> regOK, owner |-> CacheCtx(r),
                 alive |-> ~req[CacheCtx(r)].ctxDone, data |-> NoKeys]
    /\ registers' = registers + 1
    /\ IF regOK
       THEN /\ cacheOnce' = "running"
            /\ cacheErr' = ErrNone
            /\ initFetches' = initFetches + 1
            /\ req' = [req EXCEPT ![r] = [@ EXCEPT !.pc = "fetching", !.touched = TRUE]]
       ELSE /\ cacheOnce' = "done"
            /\ cacheErr' = "register failed"
            /\ initFetches' = initFetches
            /\ req' = [req EXCEPT ![r] = [@ EXCEPT !.touched = TRUE]]
    /\ UNCHANGED <<auth, fetched, lastGood, logVars, appVars>>

\* the initial Refresh returns: with the fetch's outcome, or with ctx.Err()
\* once the caller's ctx is done
InitFetchDone(r, out) ==
    /\ req[r].pc = "fetching"
    /\ \/ out \in FetchResults(auth.jwksURL, auth.whitelist)
       \/ req[r].ctxDone /\ out = FetchErr("context canceled")
    /\ cache' = [cache EXCEPT !.data = IF out.err = ErrNone THEN out.keys ELSE @]
    /\ cacheErr' = CacheErrAfterRefresh(out.err)
    /\ cacheOnce' = "done"
    /\ fetched' = IF OnNetwork(out) THEN fetched \cup {auth.jwksURL} ELSE fetched
    /\ lastGood' = IF out.err = ErrNone THEN out.keys ELSE lastGood
    /\ req' = [req EXCEPT ![r] = [@ EXCEPT !.pc = "ensure",
                                           !.initFetch = IF out.err = ErrNone THEN "ok" ELSE "failed"]]
    /\ UNCHANGED <<auth, registers, initFetches, logVars, appVars>>

\* ensureCache returns a.cacheErr; VerifyIDToken lines 85-87
EnsureReturn(r) ==
    /\ req[r].pc = "ensure"
    /\ OnceReturned(cacheOnce)
    /\ req' = [req EXCEPT ![r] =
            IF cacheErr # ErrNone
            THEN Returned([@ EXCEPT !.touched = TRUE], Failed("jwks cache", cacheErr))
            ELSE [@ EXCEPT !.pc = "get", !.touched = TRUE]]
    /\ cache' = CacheSeeing(cache, r, req'[r])
    /\ AuthLogging(r)
    /\ AuthTracing(r)
    /\ UNCHANGED <<auth, cacheOnce, cacheErr, registers, initFetches, fetched, lastGood, tracer, db>>

\* VerifyIDToken lines 88-123: cache.Get, jwt.Parse, the claims
GetAndParse(r, out) ==
    /\ req[r].pc = "get"
    /\ out \in ReadKeySet(cache, auth.jwksURL, auth.whitelist)
    /\ req' = [req EXCEPT ![r] =
            IF out.err # ErrNone
            THEN Returned(@, Failed("get jwks", out.err))
            ELSE Returned([@ EXCEPT !.keys = out.keys], ParseToken(@.token, out.keys, auth))]
    /\ cache' = CacheSeeing([cache EXCEPT !.data = IF out.err = ErrNone THEN out.keys ELSE @],
                            r, req'[r])
    /\ fetched' = IF out # FetchOK(cache.data) /\ OnNetwork(out)
                  THEN fetched \cup {auth.jwksURL} ELSE fetched
    /\ lastGood' = IF out.err = ErrNone THEN out.keys ELSE lastGood
    /\ AuthLogging(r)
    /\ AuthTracing(r)
    /\ UNCHANGED <<auth, cacheOnce, cacheErr, registers, initFetches, tracer, db>>

\* the cache's refresh worker fetches the registered URL again; it runs only
\* while the context given to jwk.NewCache is not done
BackgroundRefresh(out) ==
    /\ cache.registered
    /\ cacheOnce = "done"
    /\ WorkerAlive
    /\ out \in FetchResults(auth.jwksURL, auth.whitelist)
    /\ cache' = [cache EXCEPT !.data = IF out.err = ErrNone THEN out.keys ELSE @]
    /\ fetched' = IF OnNetwork(out) THEN fetched \cup {auth.jwksURL} ELSE fetched
    /\ lastGood' = IF out.err = ErrNone THEN out.keys ELSE lastGood
    /\ UNCHANGED <<auth, cacheOnce, cacheErr, req, registers, initFetches, logVars, appVars>>

\* the caller's context is cancelled or its deadline expires (for an HTTP
\* request: the client goes away while the request is being handled)
CancelCtx(r) ==
    /\ req[r].pc # "idle"
    /\ ~req[r].ctxDone
    /\ req' = [req EXCEPT ![r] = [@ EXCEPT !.ctxDone = TRUE]]
    /\ cache' = CacheSeeing(cache, r, req'[r])
    /\ UNCHANGED <<auth, cacheOnce, cacheErr, registers, initFetches, fetched, lastGood, logVars, appVars>>

\* goroutine r is done with its request; the next request or call it serves
\* starts from a fresh context
NextRequest(r) ==
    /\ req[r].pc = "done"
    /\ req' = [req EXCEPT ![r] = IdleReq]
    /\ cache' = [cache EXCEPT !.owner = IF @ = r THEN NoReq ELSE @]
    /\ loggers' = [x \in {y \in DOMAIN loggers : y[1] # r} |-> loggers[x]]
    /\ maps' = [x \in {y \in DOMAIN maps : y[1] # r} |-> maps[x]]
    /\ scope' = [scope EXCEPT ![r] = IdleScope]
    /\ spans' = [x \in DOMAIN spans \ SpansOf(spans, r) |-> spans[x]]
    /\ work' = [work EXCEPT ![r] = IdleWork]
    /\ UNCHANGED <<auth, cacheOnce, cacheErr, registers, initFetches, fetched, lastGood, call, derived,
                   tracer, db>>

AllOutcomes ==
    {FetchOK(ks) : ks \in KeySets}
        \cup {FetchErr(e) : e \in {"fetch failed", "rejected by whitelist", "context canceled"}}

\* the steps of the VerifyIDToken call of goroutine r
VerifyStep(r) ==
    \/ VerifyEntry(r)
    \/ \E regOK \in BOOLEAN : EnsureEnter(r, regOK)
    \/ \E out \in AllOutcomes : InitFetchDone(r, out)
    \/ EnsureReturn(r)
    \/ \E out \in AllOutcomes : GetAndParse(r, out)

NextWith(slots, routes, headers, traces, tokens) ==
    \/ \E r \in slots, route \in routes, authz \in headers, tp \in traces :
          Receive(r, route, authz, tp, EmptyStr, MintedLow)
    \/ \E r \in slots, tok \in tokens : DirectCall(r, tok)
    \/ \E r \in slots : VerifyStep(r)
    \/ \E r \in slots : CancelCtx(r)
    \/ \E r \in slots : NextRequest(r)
    \/ \E out \in AllOutcomes : BackgroundRefresh(out)

(* Spec: concurrent requests to one protected route; the key cache under concurrency *)

ConcRoutes == {"GET /visits"}

ConcHeaders == {EmptyStr, BearerPrefix \o TokGood, BearerPrefix \o TokMalformed}

Init == InitWith(Reqs)

ConcTraces == {TpSampled}

Next ==
    \/ \E r \in Reqs, route \in ConcRoutes, authz \in ConcHeaders, tp \in ConcTraces :
          Receive(r, route, authz, tp, EmptyStr, MintedLow)
    \/ \E r \in Reqs : VerifyStep(r)
    \/ \E r \in Reqs : CancelCtx(r)
    \/ \E r \in Reqs : NextRequest(r)
    \/ \E out \in AllOutcomes : BackgroundRefresh(out)

Spec == Init /\ [][Next]_vars

(* SpecHTTP: every route and every header *)

HTTPTokens == {EmptyStr}

InitHTTP == InitWith(SeqReqs)

NextHTTP == NextWith(SeqReqs, Routes, Headers, ConcTraces, HTTPTokens)

SpecHTTP == InitHTTP /\ [][NextHTTP]_vars

(* SpecVerify: callers of VerifyIDToken with every token *)

InitVerify == InitWith(SeqReqs)

NextVerify ==
    \/ \E r \in SeqReqs, tok \in Tokens \cup {EmptyStr} : DirectCall(r, tok)
    \/ \E r \in SeqReqs : VerifyStep(r)
    \/ \E r \in SeqReqs : CancelCtx(r)
    \/ \E r \in SeqReqs : NextRequest(r)
    \/ \E out \in AllOutcomes : BackgroundRefresh(out)

SpecVerify == InitVerify /\ [][NextVerify]_vars

(* SpecClaims: callers of VerifyIDToken with tokens that differ in one registered claim *)

ClaimTokens == TemporalTokens \cup IssuerAudienceTokens

InitClaims == InitWith(SeqReqs)

NextClaims ==
    \/ \E r \in SeqReqs, tok \in ClaimTokens : DirectCall(r, tok)
    \/ \E r \in SeqReqs : VerifyStep(r)
    \/ \E r \in SeqReqs : NextRequest(r)

SpecClaims == InitClaims /\ [][NextClaims]_vars

(* SpecLog: concurrent requests with different traces and users, and main logging *)

\* the requests clients send: <<Authorization, Traceparent>>
LogClients ==
    { <<BearerPrefix \o TokGood, TpSampled>>,
      <<BearerPrefix \o TokGoodU2, TpOther>>,
      <<BearerPrefix \o TokForged, EmptyStr>> }

InitLog == InitWith(Reqs)

NextLog ==
    \/ \E r \in Reqs, route \in ConcRoutes, c \in LogClients : Receive(r, route, c[1], c[2], EmptyStr, MintedLow)
    \/ \E r \in Reqs : VerifyStep(r)
    \/ \E r \in Reqs : NextRequest(r)
    \/ ProcessLog

SpecLog == InitLog /\ [][NextLog]_vars

(* SpecLogger: the Logger API under every order of derivations and log calls, *)
(* on a nil logger too, next to a request                                     *)

ApiHeaders == {BearerPrefix \o TokGood, BearerPrefix \o TokForged}

InitLogger ==
    /\ InitAuth(SeqReqs)
    /\ \E withLogger \in BOOLEAN : InitLogging(SeqReqs, withLogger)
    /\ InitApp(SeqReqs, NoTracer, NoData)

NextLogger ==
    \/ \E l \in DOMAIN loggers \cup {NilLogger}, tc \in TraceContexts : ApiWithTrace(l, tc)
    \/ \E l \in DOMAIN loggers \cup {NilLogger}, kv \in KeyValueLists : ApiWithParams(l, kv)
    \/ \E l \in DOMAIN loggers \cup {NilLogger}, c \in LogCalls : ApiLog(l, c[1], c[2])

SpecLogger == InitLogger /\ [][NextLogger]_vars

(* SpecNil: a server whose ctx holds no logger, and the Logger API on nil *)

NilLogCalls ==
    { <<"DEBUG", << >> >>,
      <<"INFO", <<StrVal(UserID), IntVal(17)>> >>,
      <<"WARNING", <<StrVal(CurrentUserID), StrVal("u2")>> >>,
      <<"ERROR", <<StrVal(ErrorParam), ErrVal("boom")>> >> }

InitNil ==
    InitAuth(SeqReqs) /\ InitLogging(SeqReqs, FALSE) /\ InitApp(SeqReqs, NoTracer, NoData)

NextNil ==
    \/ \E r \in SeqReqs, route \in ConcRoutes, authz \in ApiHeaders, tp \in ConcTraces :
          Receive(r, route, authz, tp, EmptyStr, MintedLow)
    \/ \E r \in SeqReqs : VerifyStep(r)
    \/ \E r \in SeqReqs : NextRequest(r)
    \/ ApiWithTrace(NilLogger, ParseTraceparent(TpSampled))
    \/ ApiWithParams(NilLogger, <<StrVal(CurrentUserID), StrVal("u1")>>)
    \/ \E c \in NilLogCalls : ApiLog(NilLogger, c[1], c[2])

SpecNil == InitNil /\ [][NextNil]_vars

(* SpecTrace: requests with every Traceparent header *)

TraceRoutes == {"GET /countries", "GET /visits"}

InitTrace == InitWith(SeqReqs)

NextTrace ==
    \/ \E r \in SeqReqs, route \in TraceRoutes, authz \in ApiHeaders, tp \in TraceHeaders :
          Receive(r, route, authz, tp, EmptyStr, MintedLow)
    \/ \E r \in SeqReqs : VerifyStep(r)
    \/ \E r \in SeqReqs : NextRequest(r)

SpecTrace == InitTrace /\ [][NextTrace]_vars

(* SpecSpans: requests through tracingMiddleware and the handlers, with a
   trace client for debug, one for production, or none *)

\* u1 has logged in before
SeedData == [NoData EXCEPT !.users["u1"] = UserDoc("s1")]

Tracers == {NoTracer, Tracer(TRUE), Tracer(FALSE)}

InitSpans ==
    /\ InitAuth(SeqReqs)
    /\ InitLogging(SeqReqs, TRUE)
    /\ \E tr \in Tracers, data \in {NoData, SeedData} : InitApp(SeqReqs, tr, data)

\* what a client sends and the trace id the id generator would mint for a
\* root span: route, Authorization, Traceparent, X-Cloud-Trace-Context
SpanClients ==
    {<<"GET /countries", EmptyStr, TpSampled, xc, MintedLow>> : xc \in CloudTraceHeaders}
    \cup
    { <<"GET /visits", BearerPrefix \o TokGood, TpSampled, XcSampled, MintedLow>>,
      <<"GET /visits", BearerPrefix \o TokGood, EmptyStr, XcUnsampled, MintedHigh>>,
      <<"GET /visits", BearerPrefix \o TokGood, EmptyStr, XcZeroSpan, MintedHigh>>,
      <<"GET /visits", BearerPrefix \o TokGood, TpOther, EmptyStr, MintedHigh>>,
      <<"GET /visits", BearerPrefix \o TokForged, TpSampled, XcUnsampled, MintedLow>>,
      <<"POST /login", BearerPrefix \o TokGood, EmptyStr, XcUnsampled, MintedLow>>,
      <<"GET /index.html", EmptyStr, EmptyStr, XcSampled, MintedLow>> }

\* the keys endpoint answers
SpanOutcomes == {FetchOK(KS1)}

\* main has created the server: the SafeSpan around server.NewServer returned nil
Serving == work[NoReq].pc = "returned" /\ work[NoReq].result = "nil"

NextSpans ==
    \/ \E r \in SeqReqs, c \in SpanClients :
          Serving /\ Receive(r, c[1], c[2], c[3], c[4], c[5])
    \/ \E r \in SeqReqs :
          \/ VerifyEntry(r)
          \/ EnsureEnter(r, TRUE)
          \/ \E out \in SpanOutcomes : InitFetchDone(r, out)
          \/ EnsureReturn(r)
          \/ \E out \in SpanOutcomes : GetAndParse(r, out)
    \/ \E r \in SeqReqs, tid \in MintedTraceIDs, out1, out2 \in DbOutcomes :
          HandlerEnter(r, tid, out1, out2, EmptyStr)
    \/ \E r \in SeqReqs : EnsureUserWrite(r)
    \/ \E fnOut \in FnOutcomes : MainSafeSpan(MintedLow, fnOut)
    \/ \E r \in SeqReqs : work[r].pc = "returned" /\ NextRequest(r)

SpecSpans == InitSpans /\ [][NextSpans]_vars

(* SpecDB: concurrent POST /login and POST /friends requests of user u1 *)

\* u2 has logged in before, u1 has not
FriendData == [NoData EXCEPT !.users["u2"] = UserDoc("s2")]

InitDB ==
    InitAuth(Reqs) /\ InitLogging(Reqs, TRUE) /\ InitApp(Reqs, NoTracer, FriendData)

DBRoutes == {"POST /login", "POST /friends"}

\* the ShareToken of a POST /friends body: u2's, one of no user, none
BodyShareTokens == {"s2", "s9", ""}

NextDB ==
    \/ \E r \in Reqs, route \in DBRoutes :
          Receive(r, route, BearerPrefix \o TokGood, EmptyStr, EmptyStr, MintedLow)
    \/ \E r \in Reqs :
          \/ VerifyEntry(r)
          \/ EnsureEnter(r, TRUE)
          \/ \E out \in SpanOutcomes : InitFetchDone(r, out)
          \/ EnsureReturn(r)
          \/ \E out \in SpanOutcomes : GetAndParse(r, out)
    \/ \E r \in Reqs, shareToken \in BodyShareTokens :
          HandlerEnter(r, MintedLow, "ok", "ok", shareToken)
    \/ \E r \in Reqs : EnsureUserWrite(r)
    \/ \E r \in Reqs : AddFriendQuery(r)
    \/ \E r \in Reqs : AddFriendSet(r)
    \/ \E r \in Reqs : work[r].pc = "returned" /\ NextRequest(r)

SpecDB == InitDB /\ [][NextDB]_vars

(* ------------------------------------------------------------------ *)
(* Properties                                                           *)
(* ------------------------------------------------------------------ *)

Slots == DOMAIN req

\* the call of goroutine r is past ensureCache: at the key-set read, or back
\* from it
PastEnsure(q) == q.pc = "get" \/ q.keys.present \/ q.res.err \in {"get jwks", "verify token"}

\* C1: however many callers race on a fresh Authenticator, cache.Register and
\* the initial cache.Refresh of ensureCache run at most once, and a caller is
\* at or past the key-set read only when that one run has returned (and then
\* the registration has run exactly once).
C1_SingleInitialFetch ==
    /\ registers <= 1
    /\ initFetches <= 1
    /\ \A r \in Slots : PastEnsure(req[r]) => (cacheOnce = "done" /\ registers = 1 /\ initFetches = 1)

\* two callers are inside ensureCache at once: one runs the initial fetch, the
\* other waits on cacheOnce
C1_Witness ==
    \E r1, r2 \in Slots :
        /\ r1 # r2
        /\ req[r1].pc = "fetching"
        /\ req[r2].pc = "ensure"
        /\ initFetches = 1

\* C2: on a protected route the handler runs only after VerifyIDToken returned
\* claims for this request, with the user built from those claims in the
\* context; when verification fails the request ends 401, no handler runs and
\* no user is in the context.
C2_HandlerOnlyAfterVerify ==
    \A r \in Slots :
        req[r].route \in ProtectedRoutes =>
            /\ req[r].handler # "" =>
                  /\ req[r].verifyCalled
                  /\ req[r].res.err = ErrNone
                  /\ req[r].res.claims # NoClaims
                  /\ req[r].user = UserFromClaims(req[r].res.claims)
            /\ req[r].res.err # ErrNone =>
                  /\ req[r].pc = "done"
                  /\ req[r].status = 401
                  /\ req[r].handler = ""
                  /\ req[r].user = NoUser

\* a request to a protected route whose token failed verification
C2_Witness ==
    \E r \in Slots :
        /\ req[r].route = "DELETE /friends/:shareToken"
        /\ req[r].token = TokForged
        /\ req[r].res.err = "verify token"
        /\ req[r].status = 401

\* C3: VerifyIDToken returns claims only if the key set it read holds, under
\* the key id of the token's header, the key that signed the token; no other
\* key of the set is tried.
C3_KeySelectedByKid ==
    \A r \in Slots :
        req[r].res.claims # NoClaims =>
            /\ WellFormed(req[r].token)
            /\ TokenKid(req[r].token) # ""
            /\ <<TokenKid(req[r].token), Signer(req[r].token)>> \in req[r].keys.keys

\* a token naming key id k2 but signed with the key the set holds under k1 was
\* rejected although the set holds the signing key
C3_Witness ==
    \E r \in Slots :
        /\ req[r].token = TokWrongKid
        /\ req[r].pc = "done"
        /\ req[r].keys = KS2
        /\ req[r].res = Failed("verify token", "signature")

\* C4: whatever project ids the Authenticator was built from and whatever the
\* tokens hold, key material is requested from the fixed Firebase JWKS URL
\* only, which is the one URL of the fetch whitelist.
C4_OnlyFirebaseJWKSURL ==
    /\ fetched \subseteq {firebaseIDTokenJWKSURL}
    /\ auth.jwksURL = firebaseIDTokenJWKSURL
    /\ auth.whitelist = {firebaseIDTokenJWKSURL}

\* key material was fetched by an Authenticator built with a Firebase project id
C4_Witness ==
    /\ auth.audience = "f"
    /\ fetched # {}
    /\ \E r \in Slots : req[r].res.err = "verify token"

\* the VerifyIDToken call of q returns in this step from ensureCache or later
ReturnsFromCache(q, qn) == q.pc \in {"ensure", "get"} /\ qn.pc = "done"

\* C5: once a key set has been fetched successfully, every VerifyIDToken call
\* made afterwards reads the last successfully fetched key set, failed
\* background refreshes notwithstanding, and is not handed a key-fetch error.
C5_LastGoodKeySetServed ==
    [][\A r \in Slots :
          (ReturnsFromCache(req[r], req'[r]) /\ req[r].hadKeys) =>
              /\ req'[r].keys = lastGood
              /\ req'[r].res.err \notin {"jwks cache", "get jwks"}]_vars

\* C6: the call whose initial key-set fetch failed returns the key-fetch error
\* of ensureCache and no claims, and no call returns claims unless a key set
\* was fetched and read.
C6_InitialFetchFailureIsFatal ==
    \A r \in Slots :
        /\ (req[r].initFetch = "failed" /\ req[r].pc = "done") =>
              (req[r].res.err = "jwks cache" /\ req[r].res.claims = NoClaims)
        /\ req[r].initFetch = "failed" => req[r].pc \in {"ensure", "done"}
        /\ req[r].res.claims # NoClaims => (req[r].keys.present /\ lastGood.present)

\* the call that ran the failing initial fetch has returned
C6_Witness ==
    \E r \in Slots :
        /\ req[r].initFetch = "failed"
        /\ req[r].pc = "done"
        /\ req[r].res = Failed("jwks cache", "fetch failed")
        /\ ~lastGood.present

\* C7: a caller whose ctx is done while the initial key-set fetch is in
\* progress can return at once: some step of its own is enabled that does not
\* wait for the fetch.
C7_CancelledCallerCanReturn ==
    \A r \in Slots :
        (req[r].ctxDone /\ req[r].pc \in {"ensure", "fetching"} /\ cacheOnce = "running")
            => ENABLED VerifyStep(r)

\* C8: once the key cache is initialised (registered, first key set fetched)
\* its refresh worker stays alive, whatever became of the request whose call
\* initialised it.
C8_RefreshOutlivesRequest ==
    (cache.registered /\ cacheOnce = "done" /\ cacheErr = ErrNone) => WorkerAlive

\* C9: a request to a protected route whose Authorization header is missing,
\* does not start with "Bearer " or carries an empty token ends 401 with
\* VerifyIDToken never called; and a VerifyIDToken call with the empty token
\* returns its error without entering ensureCache or reading the key set.
C9_RejectedBeforeVerifier ==
    \A r \in Slots :
        /\ (req[r].route \in ProtectedRoutes
              /\ (\/ req[r].authz = EmptyStr
                  \/ ~HasPrefix(req[r].authz, BearerPrefix)
                  \/ TrimSpace(SubSeq(req[r].authz, Len(BearerPrefix) + 1, Len(req[r].authz))) = EmptyStr))
            => (/\ req[r].pc = "done"
                /\ req[r].status = 401
                /\ req[r].handler = ""
                /\ ~req[r].verifyCalled
                /\ ~req[r].touched)
        /\ (req[r].verifyCalled /\ req[r].token = EmptyStr /\ req[r].pc # "verify")
            => (/\ req[r].pc = "done"
                /\ req[r].res = Failed("token is empty", ErrNone)
                /\ ~req[r].touched
                /\ req[r].initFetch = "")

\* a request whose header is "Bearer " followed by white space only
C9_Witness ==
    \E r \in Slots :
        /\ req[r].route = "PUT /visits"
        /\ req[r].authz = BearerPrefix \o <<" ", "\t">>
        /\ req[r].status = 401
        /\ req[r].body = "missing token"
        /\ ~req[r].verifyCalled

\* C10: a non-empty token that is structurally malformed is rejected as such,
\* by a call that never entered ensureCache nor read the key set.
C10_MalformedRejectedBeforeCache ==
    \A r \in Slots :
        (req[r].verifyCalled /\ req[r].pc = "done"
            /\ req[r].token # EmptyStr /\ ~WellFormed(req[r].token))
            => (req[r].res = Failed("verify token", "malformed") /\ ~req[r].touched)

\* C11: a request whose VerifyIDToken call ended because its ctx was done
\* during the key fetch gets an outcome other than the one of an invalid
\* credential (401 "invalid token").
C11_CancellationDistinct ==
    \A r \in Slots :
        (req[r].pc = "done" /\ req[r].route # Direct /\ req[r].initFetch = "failed"
            /\ req[r].res.cause = "context canceled")
            => ~(req[r].status = 401 /\ req[r].body = "invalid token")

\* the claims of the token of call q
TokenClaims(q) == ClaimsOf(Segments(q.token)[2][1])

\* call q read a key set that holds the token's signing key under the token's
\* key id, and the token's issuer and audience are the expected ones
NonTemporalChecksPass(q) ==
    /\ WellFormed(q.token)
    /\ q.keys.present
    /\ <<TokenKid(q.token), Signer(q.token)>> \in q.keys.keys
    /\ TokenClaims(q).iss = auth.issuer
    /\ auth.audience \in TokenClaims(q).aud

\* C12 as stated: with every other check passing, a token whose expiry lies at
\* most 60 seconds before the clock and whose not-before lies at most 60
\* seconds after it is accepted, and a token with an expiry more than 60
\* seconds before or a not-before more than 60 seconds after is rejected.
C12_SkewInclusive ==
    \A r \in Slots :
        (req[r].pc = "done" /\ req[r].verifyCalled /\ NonTemporalChecksPass(req[r])) =>
            /\ (TokenClaims(req[r]).exp >= -60 /\ TokenClaims(req[r]).nbf <= 60)
                  => req[r].res.err = ErrNone
            /\ (TokenClaims(req[r]).exp < -60 \/ TokenClaims(req[r]).nbf > 60)
                  => req[r].res = Failed("verify token", "exp/nbf")

\* C12 amended: with every other check passing, a token is accepted exactly
\* when its expiry lies less than 60 seconds before the clock and its
\* not-before at most 60 seconds after it; every other token is rejected for
\* its temporal claims.
C12_SkewTolerance ==
    \A r \in Slots :
        (req[r].pc = "done" /\ req[r].verifyCalled /\ NonTemporalChecksPass(req[r])) =>
            IF TokenClaims(req[r]).exp > -60 /\ TokenClaims(req[r]).nbf <= 60
            THEN req[r].res.err = ErrNone /\ req[r].res.claims = [sub |-> TokenClaims(req[r]).sub]
            ELSE req[r].res = Failed("verify token", "exp/nbf")

\* a token whose expiry lies exactly 60 seconds before the clock was rejected
\* for its expiry, every other check passing
C12_Witness ==
    \E r \in Slots :
        /\ req[r].pc = "done"
        /\ NonTemporalChecksPass(req[r])
        /\ TokenClaims(req[r]).exp = -60
        /\ req[r].res = Failed("verify token", "exp/nbf")

\* C13: VerifyIDToken returns claims only if the token's issuer is
\* "https://securetoken.google.com/" followed by the effective project id and
\* its audience is the effective project id exactly, the effective project id
\* being firebaseProjectID when non-empty and projectID otherwise.
C13_IssuerAudienceExact ==
    \A p \in ProjectIDs, f \in FirebaseProjectIDs :
        auth = NewAuthenticator(p, f) =>
            \A r \in Slots :
                req[r].res.claims # NoClaims =>
                    /\ TokenClaims(req[r]).iss =
                          "https://securetoken.google.com/" \o (IF f # "" THEN f ELSE p)
                    /\ TokenClaims(req[r]).aud = {IF f # "" THEN f ELSE p}

\* the lines goroutine r has written while handling its request
Lines(r) == {scope[r].recs[i].entry : i \in 1..Len(scope[r].recs)}

\* C14: every line written while handling a request carries no trace id, span
\* id or current-user id other than that request's own, whatever other
\* requests are in flight; the logger of the process never acquires a trace or
\* a label, and the lines of the process carry none.
C14_RecordsCarryOwnIdentity ==
    /\ \A r \in Slots : \A e \in Lines(r) :
          /\ e.Trace # EmptyStr =>
                (scope[r].tc.present /\ e.Trace = TraceRef(auth.projectID, scope[r].tc.TraceID))
          /\ e.SpanID # EmptyStr => (scope[r].tc.present /\ e.SpanID = scope[r].tc.SpanID)
          /\ \A p \in e.Labels :
                p[1] = CurrentUserID => (req[r].user # NoUser /\ p[2] = req[r].user.UserID)
    /\ BaseLogger \in DOMAIN loggers => loggers[BaseLogger] = NewLogger(auth.projectID)
    /\ \A e \in Lines(NoReq) :
          e.Trace = EmptyStr /\ e.SpanID = EmptyStr /\ CurrentUserID \notin Keys(e.Labels)

\* two requests with different traces and different users have both written
\* lines, and so has the process
C14_Witness ==
    \E r1, r2 \in Slots :
        /\ Lines(r1) # {} /\ Lines(r2) # {} /\ Lines(NoReq) # {}
        /\ scope[r1].tc.present /\ scope[r2].tc.present
        /\ scope[r1].tc.TraceID # scope[r2].tc.TraceID
        /\ req[r1].user # NoUser /\ req[r2].user # NoUser
        /\ req[r1].user # req[r2].user

\* what a log call with key-values kv may set itself
FieldKeys(kv) == Keys(buildFieldsFromKeyValues(kv))

\* C15: a derivation leaves the logger it was made from as it was: the
\* original keeps its labels and trace, the derived logger keeps what the
\* derivation attached, a line of the derived logger carries the attached
\* labels and trace, and a line of the original carries none of the labels the
\* derivation added nor its trace, in every order of calls on the two.
C15_DerivationLeavesOriginal ==
    \A d \in derived :
        /\ Labels(Heap, d.from) = d.fromLabels
        /\ TraceOf(Heap, d.from) = d.fromTrace
        /\ Labels(Heap, d.to) = d.toLabels
        /\ TraceOf(Heap, d.to) = d.toTrace
        /\ d.to = d.from => (d.toLabels = d.fromLabels /\ d.toTrace = d.fromTrace)
        /\ (call.wrote /\ call.on = d.to) =>
              /\ \A p \in d.toLabels :
                    p[1] \notin FieldKeys(call.keyValues) => p \in call.entry.Labels
              /\ d.toTrace # EmptyStr =>
                    call.entry.Trace = TraceRef(auth.projectID, d.toTrace)
        /\ (call.wrote /\ call.on = d.from /\ d.from # d.to) =>
              /\ \A p \in call.entry.Labels :
                    p[1] \notin FieldKeys(call.keyValues) => p \in d.fromLabels
              /\ d.fromTrace = EmptyStr =>
                    (call.entry.Trace = EmptyStr /\ call.entry.SpanID = EmptyStr)

\* the original logger writes a line after a logger with the user label was
\* derived from it
C15_Witness ==
    \E d \in derived :
        /\ d.from # d.to
        /\ CurrentUserID \in Keys(d.toLabels) \ Keys(d.fromLabels)
        /\ call.wrote
        /\ call.on = d.from
        /\ CurrentUserID \notin Keys(call.entry.Labels)

\* C16: every line of a request logger has severity, message and timestamp;
\* when the request's ctx held a TraceContext the line has the trace reference
\* rendered from it and its span id; when the request carries a verified
\* identity the line has the subject under current_user_id.
C16_RecordFields ==
    \A r \in Slots : \A e \in Lines(r) :
        /\ e.Severity \in Severities
        /\ e.Message # ""
        /\ e.Timestamp # EmptyStr
        /\ scope[r].tc.present =>
              /\ e.Trace = <<"projects/", auth.projectID, "/traces/", scope[r].tc.TraceID>>
              /\ e.SpanID = scope[r].tc.SpanID
              /\ e.SpanID # EmptyStr
        /\ req[r].user # NoUser => <<CurrentUserID, req[r].user.UserID>> \in e.Labels

\* a request with a trace and a verified identity has written its lines
C16_Witness ==
    \E r \in Slots :
        /\ scope[r].tc.present
        /\ req[r].user = UserFromClaims([sub |-> "u2"])
        /\ Len(scope[r].recs) = 2

\* C17: when a log call passes a key that is also a label of the logger, the
\* line carries the logger's value for that key.
C17_ScopeLabelWins ==
    call.wrote => \A p \in Labels(Heap, call.on) : p \in call.entry.Labels

\* C18: every operation on a nil *Logger returns (nil, for a derivation)
\* without a panic and writes nothing, and a request whose ctx holds no logger
\* runs without a panic and writes nothing.
C18_NilLoggerSafe ==
    /\ (call.op # "" /\ call.on = NilLogger) =>
          (~call.panic /\ ~call.wrote /\ call.ref = NilLogger /\ call.entry = NoEntry)
    /\ \A r \in Slots :
          scope[r].logger = NilLogger => (~scope[r].panicked /\ scope[r].recs = << >>)
    /\ DOMAIN loggers = {}

\* a request was served by its handler on a server without a logger, and
\* WithParams was called on nil
C18_Witness ==
    \E r \in Slots :
        /\ req[r].pc = "done"
        /\ req[r].status = 200
        /\ req[r].handler # ""
        /\ scope[r].tp # EmptyStr
        /\ scope[r].logger = NilLogger
        /\ call.op = "WithParams"
        /\ call.on = NilLogger

\* the flags field of a header of the structured shape
FlagsOf(header) == SplitOn(header, "-", << >>)[4]

\* the low bit of a two-digit hex field
LowBit(flags) == flags[2] \in {"1", "3", "5", "7", "9", "b", "d", "f", "B", "D", "F"}

\* C19: for a header of the structured shape the request's TraceContext is
\* present and its Sampled flag is the low bit of the flags field.
C19_SampledIsLowBit ==
    \A r \in Slots :
        (req[r].pc # "idle" /\ StructuredShape(scope[r].tp)) =>
            /\ scope[r].tc.present
            /\ scope[r].tc.Sampled = LowBit(FlagsOf(scope[r].tp))

\* C20: for a header that deviates from the structured shape (field count,
\* field length, non-hex character in any of the four fields) ParseTraceparent
\* returns nil, without a panic.
C20_MalformedIsAbsent ==
    \A r \in Slots :
        (req[r].pc # "idle" /\ ~StructuredShape(scope[r].tp)) =>
            (~scope[r].tc.present /\ ~scope[r].panicked)

\* the headers made of a 2-hex version, a 32-hex trace id, a 16-hex span id and
\* any flags field, with the identifiers they were made of
RoundTripCases ==
    { [header |-> Traceparent(Version00, t, s, f), traceID |-> t, spanID |-> s] :
        t \in {TraceIdA, TraceIdB, TraceIdC}, s \in {SpanIdA, SpanIdB, SpanIdC},
        f \in {FlagsSampled, FlagsUnsampled, <<"z", "z">>, <<"1">>, EmptyStr,
               <<"0", "1", "0", "0">>} }

\* C21: for a header made of a 2-hex version, a 32-hex trace id, a 16-hex span
\* id and a flags field, the request's TraceContext holds exactly the header's
\* trace id and span id, and every line of the request renders them unchanged.
C21_IdsRoundTrip ==
    \A r \in Slots : \A c \in RoundTripCases :
        (req[r].pc # "idle" /\ scope[r].tp = c.header) =>
            /\ scope[r].tc.present
            /\ scope[r].tc.TraceID = c.traceID
            /\ scope[r].tc.SpanID = c.spanID
            /\ \A e \in Lines(r) :
                  e.Trace = TraceRef(auth.projectID, c.traceID) /\ e.SpanID = c.spanID

\* a request with upper-case identifiers has written a line
C21_Witness ==
    \E r \in Slots :
        /\ scope[r].tp = TpUpperCase
        /\ scope[r].tc.TraceID = TraceIdC
        /\ \E e \in Lines(r) : e.SpanID = SpanIdC

\* the first initialisation of the key cache is over and has failed
InitFailed == cacheOnce = "done" /\ cacheErr # ErrNone

\* C28: once the first initialisation of the key cache has failed, the stored
\* error never changes, no step of a VerifyIDToken call registers or fetches
\* again, and every call that comes back from ensureCache returns the stored
\* error and no claims.
C28_InitErrorSticky ==
    [][InitFailed =>
          /\ cacheErr' = cacheErr
          /\ cacheOnce' = cacheOnce
          /\ registers' = registers
          /\ initFetches' = initFetches
          /\ req' # req => fetched' = fetched
          /\ \A r \in Slots :
                (req[r].pc = "ensure" /\ req'[r].pc # "ensure") =>
                    /\ req'[r].pc = "done"
                    /\ req'[r].res = Failed("jwks cache", cacheErr)]_vars

\* a call that began after a key set had been fetched in the background has
\* returned the stored error
C28_Witness ==
    \E r \in Slots :
        /\ InitFailed
        /\ lastGood.present
        /\ req[r].hadKeys
        /\ req[r].pc = "done"
        /\ req[r].res = Failed("jwks cache", cacheErr)

\* legacy headers traceid/spanid;o=<flag> and traceid/spanid, with the parts
\* they were made of and the sampled flag their flag stands for
LegacyCase(traceID, spanID, flag, sampled) ==
    [header |-> CloudTrace(traceID, spanID, flag), traceID |-> traceID, spanID |-> spanID,
     sampled |-> sampled]

LegacyCases ==
    { LegacyCase(t, s, <<"1">>, TRUE) :
        t \in {LegacyTraceId, TraceIdA, TraceIdB, TraceIdC},
        s \in {<<"0">>, <<"7">>, <<"0", "7">>, <<"1", "2">>, <<"x">>, MaxUint64} }
    \cup
    { LegacyCase(t, s, <<"0">>, FALSE) :
        t \in {LegacyTraceId, TraceIdA, TraceIdB, TraceIdC},
        s \in {<<"0">>, <<"7">>, <<"0", "7">>, <<"1", "2">>, <<"x">>, MaxUint64} }
    \cup
    { [header |-> t \o Slash \o s, traceID |-> t, spanID |-> s, sampled |-> TRUE] :
        t \in {LegacyTraceId, TraceIdA, TraceIdB, TraceIdC},
        s \in {<<"0">>, <<"7">>, <<"0", "7">>, <<"1", "2">>, <<"x">>, MaxUint64} }

\* C22: for a legacy header traceid/spanid;o=<flag>, ExtractTraceContext returns
\* the text before the first "/" as trace id and the text between "/" and ";o="
\* as span id, with sampled true for flag 1, false for flag 0 and true when
\* the ";o=" segment is absent; 105445aa7843bc8bf206b120001000/0;o=1 gives
\* trace id 105445aa7843bc8bf206b120001000, span id 0, sampled true.
C22_LegacyHeaderParts ==
    \A r \in Slots : \A c \in LegacyCases :
        (work[r].called /\ work[r].xc = c.header) =>
            work[r].extracted = Extracted(c.traceID, c.spanID, c.sampled)

\* tracingMiddleware has parsed a header without the ";o=" segment
C22_Witness ==
    \E r \in Slots :
        /\ work[r].called
        /\ work[r].xc = XcNoFlag
        /\ work[r].extracted = Extracted(TraceIdB, <<"7">>, TRUE)

\* tracingMiddleware has parsed the header 105445aa7843bc8bf206b120001000/0;o=1
C22_WitnessLegacy ==
    \E r \in Slots :
        /\ work[r].called
        /\ work[r].xc = XcLegacy1
        /\ work[r].extracted = Extracted(LegacyTraceId, <<"0">>, TRUE)

\* C23: in both sampling modes every span that has a parent, local or remote
\* from the X-Cloud-Trace-Context header, carries the sampled flag of that
\* parent: the decision is made at the root only.
C23_SampledInherited ==
    \A id \in DOMAIN spans :
        spans[id].parent.valid => spans[id].sc.sampled = spans[id].parent.sampled

\* the operation of goroutine r that opened spans has come to its end
Exited(r) == work[r].pc = "returned"

\* C24: every span opened by tracingMiddleware, by a handler through
\* tracing.New, or by SafeSpan has been ended exactly once when the operation
\* that opened it has exited, whether by return, early error return or panic,
\* and is never ended twice.
C24_EndedExactlyOnce ==
    /\ \A id \in DOMAIN spans : spans[id].ends <= 1
    /\ \A r \in Slots : Exited(r) => \A id \in SpansOf(spans, r) : spans[id].ends = 1

\* span id is a span of the trace of the span handler and has it as parent
ChildOf(id, handler) ==
    /\ spans[id].parent.valid
    /\ spans[id].parent.SpanID = handler
    /\ spans[id].parent = spans[handler].sc
    /\ spans[id].sc.TraceID = spans[handler].sc.TraceID

C26_NoTracerNoOp ==
    ~tracer.present =>
        /\ DOMAIN spans = {}
        /\ \A r \in Slots :
              /\ ~work[r].called
              /\ work[r].mw = NoSpanID /\ work[r].hspan = NoSpanID
              /\ work[r].dbSpan = NoSpanID /\ work[r].dbSpan2 = NoSpanID
              /\ work[r].hctx = work[r].ctx
              /\ req[r].handler = "POST /login" =>
                    /\ ~work[r].panicked
                    /\ Exited(r) => work[r].status = 200
        /\ Exited(NoReq) => work[NoReq].ran /\ work[NoReq].result = work[NoReq].fn

\* without a tracer main's SafeSpan has returned nil and PostLoginHandler has
\* answered 200
C26_Witness ==
    /\ ~tracer.present
    /\ work[NoReq].ran /\ work[NoReq].result = "nil"
    /\ \E r \in Slots :
          /\ req[r].handler = "POST /login"
          /\ work[r].xc = XcUnsampled
          /\ Exited(r) /\ work[r].status = 200

\* C27: every line a request has written carries the trace id of every span
\* opened for that request, whichever of Traceparent and X-Cloud-Trace-Context
\* the request came with, and all spans of the request, from the server span
\* of tracingMiddleware to the last handler span, have one trace id.
C27_LogTraceIsSpanTrace ==
    \A r \in Slots : \A id \in SpansOf(spans, r) :
        /\ \A e \in Lines(r) : e.Trace = TraceRef(auth.projectID, spans[id].sc.TraceID)
        /\ \A other \in SpansOf(spans, r) : spans[other].sc.TraceID = spans[id].sc.TraceID

\* C29: after any interleaving of POST /friends requests of one user, that
\* user's friends collection holds at most one friend per ShareToken.
C29_OneFriendPerShareToken ==
    \A f, g \in db.friends :
        (f.owner = g.owner /\ f.ShareToken = g.ShareToken) => f = g

\* C30: once a user document exists its ShareToken never changes: the token
\* is allocated by the POST /login that creates the document and by no other.
C30_ShareTokenAllocatedOnce ==
    [][\A u \in UserIDs : db.users[u].exists => db'.users[u] = db.users[u]]_vars


====
